---- MODULE Spec2Model ----
(***************************************************************************)
(* A model of the Void interpreter (src/src/tokens.ts, class Interpreter   *)
(* and class Environment) together with the statement forms the parser     *)
(* (src/src/parser.ts) hands to it.                                        *)
(*                                                                         *)
(* Runtime values are records [t, n, s]:                                   *)
(*   t = "null"                      the JS null                           *)
(*   t = "bool",   n \in {0,1}       a JS boolean                          *)
(*   t = "number", n \in Int         a JS number with finitely many        *)
(*                 s \in Seq(digit)   decimal places: n is its floor and s  *)
(*                                   the digits after the point of the     *)
(*                                   rest (<<>> for a whole number, no     *)
(*                                   trailing 0), so 1.5 is n = 1,         *)
(*                                   s = <<"5">> and -1.5 is n = -2,       *)
(*                                   s = <<"5">>; Infinity is n = 1 and    *)
(*                                   -Infinity n = -1, both with s = Inf   *)
(*   t = "string", s \in Seq(char)   a JS string, one character per entry  *)
(*   t = "ref",    n = heap address  a JS array or VoidDict object         *)
(* Arrays and VoidDict objects live in `heap`, so that two bindings can    *)
(* hold the same object.                                                   *)
(***************************************************************************)
EXTENDS Integers, Sequences, FiniteSets, TLC

VARIABLES
  status,      \* "init" | "running" | "error" | "done": position of runFile/execute
  scopes,      \* the Environment chain, scopes[1] = globalEnv, last = current
  heap,        \* the arrays and VoidDict objects allocated so far
  out,         \* lines written to stdout, in order
  steps,       \* number of statements and blocks the run may still start
  last,        \* the statement executed by the latest step and its outcome
  failed,      \* TRUE once a statement has thrown
  declared,    \* per open block: the names a create: statement of it defined
  ended,       \* names defined by a create: in a block that has ended
  alias,       \* the latest binding of one container variable to another
  added,       \* keys passed to add:dict on the tracked dict, in call order
  loopKind,    \* "none" | "while" | "for": the loop statement being executed
  loopPc,      \* "run" | "exit" | "error": position inside executeWhile/executeFor
  iterations,  \* the local variable `iterations` of executeWhile/executeFor
  bodyRuns,    \* number of times the loop body has been executed
  convPc,      \* position of the conversion round trip
  convArg,     \* argument of the conversion round trip
  convStr,     \* result of toString(convArg)
  convRes,     \* result of toInt/toBool applied to convStr
  fnPc,        \* "idle" | "args" | "done": position of a call of one function
  fnArgs,      \* the arguments of the call
  fnRes,       \* what the call returned
  control      \* what the run has still to execute, innermost first

interpVars == <<status, scopes, heap, out, steps, last, failed, declared, ended,
                alias, added>>
loopVars == <<loopKind, loopPc, iterations, bodyRuns>>
convVars == <<convPc, convArg, convStr, convRes>>
fnVars == <<fnPc, fnArgs, fnRes>>
vars == <<interpVars, loopVars, convVars, fnVars, control>>

-----------------------------------------------------------------------------
(* Bounds of the model.                                                    *)

\* Whole numbers of the conversion round trip are drawn from -MaxInt..MaxInt.
MaxInt == 120

-----------------------------------------------------------------------------
(* Runtime values.                                                         *)

VNull == [t |-> "null", n |-> 0, s |-> <<>>]
VBool(b) == [t |-> "bool", n |-> IF b THEN 1 ELSE 0, s |-> <<>>]
VNum(i) == [t |-> "number", n |-> i, s |-> <<>>]
VStr(str) == [t |-> "string", n |-> 0, s |-> str]
\* The number floor + 0.frac
VFloat(floor, frac) == [t |-> "number", n |-> floor, s |-> frac]
VRef(a) == [t |-> "ref", n |-> a, s |-> <<>>]

\* Array.isArray(value)
IsArray(v, h) == v.t = "ref" /\ h[v.n].kind = "list"

isVoidDict(v, h) == v.t = "ref" /\ h[v.n].kind = "dict"

createVoidDict == [kind |-> "dict", keys |-> <<>>, values |-> <<>>]

\* A JS array: its elements are kept in `values`.
NewArray(elems) == [kind |-> "list", keys |-> <<>>, values |-> elems]

\* The JS typeof operator.
TypeOf(v) ==
  CASE v.t = "bool" -> "boolean"
    [] v.t = "number" -> "number"
    [] v.t = "string" -> "string"
    [] OTHER -> "object"

-----------------------------------------------------------------------------
(* Strings and numbers.                                                    *)

Digits == <<"0", "1", "2", "3", "4", "5", "6", "7", "8", "9">>

IsDigit(c) == \E d \in 1..10 : Digits[d] = c

DigitVal(c) == (CHOOSE d \in 1..10 : Digits[d] = c) - 1

RECURSIVE NatToString(_)
NatToString(n) ==
  IF n < 10 THEN <<Digits[n + 1]>>
  ELSE NatToString(n \div 10) \o <<Digits[(n % 10) + 1]>>

\* String(n) for a whole number n.
NumberToString(n) ==
  IF n < 0 THEN <<"-">> \o NatToString(-n) ELSE NatToString(n)

\* Value of a run of decimal digits.
RECURSIVE DigitsValue(_)
DigitsValue(ds) ==
  IF ds = <<>> THEN 0
  ELSE 10 * DigitsValue(SubSeq(ds, 1, Len(ds) - 1)) + DigitVal(ds[Len(ds)])

IsSpace(c) == c = " "

RECURSIVE TrimLeft(_)
TrimLeft(str) ==
  IF str # <<>> /\ IsSpace(str[1]) THEN TrimLeft(Tail(str)) ELSE str

RECURSIVE TrimRight(_)
TrimRight(str) ==
  IF str # <<>> /\ IsSpace(str[Len(str)])
  THEN TrimRight(SubSeq(str, 1, Len(str) - 1)) ELSE str

\* The longest prefix of str made of decimal digits.
RECURSIVE DigitPrefix(_)
DigitPrefix(str) ==
  IF str # <<>> /\ IsDigit(str[1])
  THEN <<str[1]>> \o DigitPrefix(Tail(str)) ELSE <<>>

\* The result of a conversion to a JS number: NaN, or the number n + 0.s
\* (n its floor, s the digits after the point of the rest).
NaN == [nan |-> TRUE, n |-> 0, s |-> <<>>]
Num(i) == [nan |-> FALSE, n |-> i, s |-> <<>>]
NumFrac(i, frac) == [nan |-> FALSE, n |-> i, s |-> frac]

\* The mark of an infinite number, and the text String gives it.
Inf == <<"Infinity">>
InfinityText == <<"I", "n", "f", "i", "n", "i", "t", "y">>

\* ds without its trailing zeros
RECURSIVE StripZeros(_)
StripZeros(ds) ==
  IF ds # <<>> /\ ds[Len(ds)] = "0" THEN StripZeros(SubSeq(ds, 1, Len(ds) - 1))
  ELSE ds

\* 10 to the power k
RECURSIVE Pow10(_)
Pow10(k) == IF k = 0 THEN 1 ELSE 10 * Pow10(k - 1)

\* str with zeros in front, up to length k
RECURSIVE PadZeros(_, _)
PadZeros(str, k) == IF Len(str) >= k THEN str ELSE PadZeros(<<"0">> \o str, k)

\* The digits after the point of 1 - 0.frac, for frac without trailing zeros
\* and not empty.
FracComplement(frac) ==
  PadZeros(NatToString(Pow10(Len(frac)) - DigitsValue(frac)), Len(frac))

\* The number -(n + 0.frac) as floor and rest.
Negate(n, frac) ==
  IF frac = <<>> \/ frac = Inf THEN NumFrac(0 - n, frac)
  ELSE NumFrac(0 - n - 1, FracComplement(frac))

\* String(x) for the number x = n + 0.frac
FloatToString(n, frac) ==
  IF frac = <<>> THEN NumberToString(n)
  ELSE IF frac = Inf THEN (IF n < 0 THEN <<"-">> ELSE <<>>) \o InfinityText
  ELSE IF n >= 0 THEN NatToString(n) \o <<".">> \o frac
  ELSE <<"-">> \o NatToString(0 - n - 1) \o <<".">> \o FracComplement(frac)

\* t without its sign, and whether the sign is "-"
Unsigned(t) == IF t # <<>> /\ t[1] \in {"-", "+"} THEN Tail(t) ELSE t

IsNegative(t) == t # <<>> /\ t[1] = "-"

\* The value of the digits ds read by parseInt, NaN when there is none.
ParseIntDigits(neg, ds) ==
  IF ds = <<>> THEN NaN
  ELSE Num(IF neg THEN 0 - DigitsValue(ds) ELSE DigitsValue(ds))

ParseIntTrimmedUnsigned(t) == ParseIntDigits(FALSE, DigitPrefix(Unsigned(t)))

ParseIntTrimmed(t) == ParseIntDigits(IsNegative(t), DigitPrefix(Unsigned(t)))

ParseIntUnsigned(str) == ParseIntTrimmedUnsigned(TrimLeft(str))

\* parseInt(str, 10): leading white space, an optional sign, then the longest
\* run of digits; NaN when there is no digit.
ParseInt(str) == ParseIntTrimmed(TrimLeft(str))

\* The part of str before its first "."
RECURSIVE BeforePoint(_)
BeforePoint(str) ==
  IF str = <<>> \/ str[1] = "." THEN <<>> ELSE <<str[1]>> \o BeforePoint(Tail(str))

\* The part of str after its first ".", <<>> when it has none
AfterPoint(str) == SubSeq(str, Len(BeforePoint(str)) + 2, Len(str))

AllDigits(str) == \A i \in 1..Len(str) : IsDigit(str[i])

\* Number(str) on the strings of the model (no exponent or radix prefix):
\* white space is trimmed, the empty string is 0, an optionally signed
\* decimal numeral (digits, with or without a point, at least one digit) is
\* its value, an optionally signed "Infinity" is infinite, anything else is
\* NaN.
NumberOfParts(neg, whole, frac) ==
  IF AllDigits(whole) /\ AllDigits(frac) /\ whole \o frac # <<>>
  THEN IF neg THEN Negate(DigitsValue(whole), StripZeros(frac))
       ELSE NumFrac(DigitsValue(whole), StripZeros(frac))
  ELSE NaN

NumberOfBody(neg, body) ==
  IF body = InfinityText THEN NumFrac(IF neg THEN 0 - 1 ELSE 1, Inf)
  ELSE NumberOfParts(neg, BeforePoint(body), AfterPoint(body))

NumberOfTrimmed(t) ==
  IF t = <<>> THEN Num(0) ELSE NumberOfBody(IsNegative(t), Unsigned(t))

StringToNumber(str) == NumberOfTrimmed(TrimRight(TrimLeft(str)))

RECURSIVE Join(_, _)
Join(strs, sep) ==
  IF strs = <<>> THEN <<>>
  ELSE IF Len(strs) = 1 THEN strs[1]
  ELSE strs[1] \o sep \o Join(Tail(strs), sep)

-----------------------------------------------------------------------------
(* Interpreter helpers.                                                    *)

\* Interpreter.stringify
RECURSIVE stringify(_, _)
stringify(v, h) ==
  CASE v.t = "null" -> <<"n", "u", "l", "l">>
    [] v.t = "bool" ->
         IF v.n = 1 THEN <<"t", "r", "u", "e">> ELSE <<"f", "a", "l", "s", "e">>
    [] v.t = "ref" /\ h[v.n].kind = "list" ->
         <<"[">> \o
         Join([i \in 1..Len(h[v.n].values) |-> stringify(h[v.n].values[i], h)],
              <<",", " ">>)
         \o <<"]">>
    [] v.t = "ref" /\ h[v.n].kind = "dict" ->
         <<"{">> \o
         Join([i \in 1..Len(h[v.n].keys) |->
                 stringify(h[v.n].keys[i], h) \o <<":">>
                 \o stringify(h[v.n].values[i], h)],
              <<",", " ">>)
         \o <<"}">>
    [] v.t = "string" -> v.s
    [] OTHER -> FloatToString(v.n, v.s)

\* String(value) (used by toInt, length, Number(value), ...): an array is
\* its elements joined by ",", null elements as the empty string.
RECURSIVE JsString(_, _)
JsString(v, h) ==
  IF v.t = "ref"
  THEN IF h[v.n].kind = "dict"
       THEN <<"[", "o", "b", "j", "e", "c", "t", " ", "O", "b", "j", "e", "c", "t", "]">>
       ELSE Join([i \in 1..Len(h[v.n].values) |->
                    IF h[v.n].values[i].t = "null" THEN <<>>
                    ELSE JsString(h[v.n].values[i], h)], <<",">>)
  ELSE stringify(v, h)

\* Interpreter.isTruthy
isTruthy(v, h) ==
  CASE v.t = "null" -> FALSE
    [] v.t = "bool" -> v.n = 1
    [] v.t = "number" -> v.n # 0 \/ v.s # <<>>
    [] v.t = "string" -> Len(v.s) > 0
    [] v.t = "ref" /\ h[v.n].kind = "list" -> Len(h[v.n].values) > 0
    [] OTHER -> Len(h[v.n].keys) > 0

\* Interpreter.toNumber: [ok, n, s], the number n + 0.s; ok = FALSE when it
\* throws.
\* if (isNaN(num)) throw, for the number r
ThrowIfNaN(r) ==
  IF r.nan THEN [ok |-> FALSE, n |-> 0, s |-> <<>>]
  ELSE [ok |-> TRUE, n |-> r.n, s |-> r.s]

toNumber(v, h) ==
  CASE v.t = "number" -> [ok |-> TRUE, n |-> v.n, s |-> v.s]
    [] v.t = "string" -> ThrowIfNaN(StringToNumber(v.s))
    [] v.t = "bool" -> [ok |-> TRUE, n |-> v.n, s |-> <<>>]
    [] OTHER -> [ok |-> TRUE, n |-> 0, s |-> <<>>]

\* Interpreter.areEqual
areEqual(l, r, h) ==
  IF TypeOf(l) = TypeOf(r) THEN l = r
  ELSE IF TypeOf(l) \in {"boolean", "number"} /\ TypeOf(r) \in {"boolean", "number"}
       THEN toNumber(l, h) = toNumber(r, h)
       ELSE stringify(l, h) = stringify(r, h)

\* case "toInt": parseInt(String(args[0]), 10) || 0
OrZero(r) == IF r.nan THEN VNum(0) ELSE VNum(r.n)

toInt(v, h) == OrZero(ParseInt(JsString(v, h)))

\* case "toString": this.stringify(args[0])
toString(v, h) == VStr(stringify(v, h))

\* case "toBool": this.isTruthy(args[0])
toBool(v, h) == VBool(isTruthy(v, h))

-----------------------------------------------------------------------------
(* class Environment.  The chain of scopes is the sequence sc: sc[1] is    *)
(* globalEnv and sc[Len(sc)] the current scope; the parent of sc[i] is     *)
(* sc[i-1].  A scope maps every name to a Variable {type, value}; type     *)
(* "none" stands for a name the scope's Map does not hold.                 *)

Names == {"a", "b"}

Unbound == [type |-> "none", value |-> VNull]

NewEnvironment == [n \in Names |-> Unbound]

\* this.variables.has(name)
VariablesHas(scope, name) == name \in DOMAIN scope /\ scope[name].type # "none"

\* The scope in which Environment.get/set, started at scope i, find `name`:
\* the nearest one on the parent chain, 0 when the chain does not hold it.
RECURSIVE EnvFind(_, _, _)
EnvFind(sc, i, name) ==
  IF i = 0 THEN 0
  ELSE IF VariablesHas(sc[i], name) THEN i
  ELSE EnvFind(sc, i - 1, name)

EnvDefineGlobal(sc, name, type, value) ==
  IF VariablesHas(sc[1], name) THEN [ok |-> FALSE, scopes |-> sc]
  ELSE [ok |-> TRUE,
        scopes |-> [sc EXCEPT ![1][name] = [type |-> type, value |-> value]]]

EnvDefineOverwrite(sc, name, type, value) ==
  [ok |-> TRUE,
   scopes |-> [sc EXCEPT ![Len(sc)][name] = [type |-> type, value |-> value]]]

\* Environment.define on the current scope
EnvDefine(sc, name, type, value) ==
  IF VariablesHas(sc[Len(sc)], name) THEN [ok |-> FALSE, scopes |-> sc]
  ELSE [ok |-> TRUE,
        scopes |-> [sc EXCEPT ![Len(sc)][name] = [type |-> type, value |-> value]]]

\* Environment.get from the current scope
EnvGet(sc, name) ==
  LET i == EnvFind(sc, Len(sc), name)
  IN IF i = 0 THEN [ok |-> FALSE, variable |-> Unbound]
     ELSE [ok |-> TRUE, variable |-> sc[i][name]]

EnvSetEvery(sc, name, value) ==
  IF EnvFind(sc, Len(sc), name) = 0 THEN [ok |-> FALSE, scopes |-> sc]
  ELSE [ok |-> TRUE,
        scopes |-> [j \in 1..Len(sc) |->
                      IF VariablesHas(sc[j], name)
                      THEN [sc[j] EXCEPT ![name].value = value] ELSE sc[j]]]

\* Environment.set from the current scope
EnvSet(sc, name, value) ==
  LET i == EnvFind(sc, Len(sc), name)
  IN IF i = 0 THEN [ok |-> FALSE, scopes |-> sc]
     ELSE [ok |-> TRUE, scopes |-> [sc EXCEPT ![i][name].value = value]]

-----------------------------------------------------------------------------
(* AST nodes (src/src/parser.ts) are records with the fields of the node   *)
(* interfaces.  Evaluating an expression yields [ok, v, heap]: ok = FALSE  *)
(* when it throws, v the value, heap the heap after the allocations.       *)

NumberLiteral(i) == [type |-> "NumberLiteral", value |-> i]
\* The literal whole.frac; value is the number parseFloat gives.
FloatLiteral(whole, frac) ==
  [type |-> "FloatLiteral", value |-> VFloat(whole, StripZeros(frac))]
UnaryExpr(op, operand) == [type |-> "UnaryExpr", operator |-> op, operand |-> operand]
StringLiteral(str) == [type |-> "StringLiteral", value |-> str]
BoolLiteral(b) == [type |-> "BoolLiteral", value |-> b]
Identifier(name) == [type |-> "Identifier", name |-> name]
ListLiteral(elems) == [type |-> "ListLiteral", elements |-> elems]
DictLiteral(entries) == [type |-> "DictLiteral", entries |-> entries]
Entry(k, v) == [key |-> k, value |-> v]
BinaryExpr(op, l, r) == [type |-> "BinaryExpr", operator |-> op, left |-> l, right |-> r]
IndexAccess(obj, idx) == [type |-> "IndexAccess", object |-> obj, index |-> idx]
FunctionCall(name, args) == [type |-> "FunctionCall", name |-> name, args |-> args]
CreateVarNode(ty, name, value) ==
  [type |-> "CreateVar", varType |-> ty, name |-> name, value |-> value]
AssignVarNode(name, value) == [type |-> "AssignVar", name |-> name, value |-> value]
MethodCallNode(obj, method, coll, args) ==
  [type |-> "MethodCall", object |-> obj, method |-> method,
   collectionType |-> coll, args |-> args]
EchoNode(exprs) == [type |-> "Echo", expressions |-> exprs]
BlockNode(stmts) == [type |-> "Block", statements |-> stmts]
\* An optional node that is absent (elseBranch, init and update are `| null`).
NoNode == [type |-> "None"]
IfNode(cond, thenBranch, elseBranch) ==
  [type |-> "If", condition |-> cond, thenBranch |-> thenBranch,
   elseBranch |-> elseBranch]
WhileNode(cond, body) == [type |-> "While", condition |-> cond, body |-> body]
ForNode(init, cond, update, body) ==
  [type |-> "For", init |-> init, condition |-> cond, update |-> update,
   body |-> body]
MainNode(body) == [type |-> "Main", body |-> body]
\* ProgramNode; appName is left out, style is whether the program names one.
ProgramNode(style, body) == [type |-> "Program", style |-> style, body |-> body]

Threw(h) == [ok |-> FALSE, v |-> VNull, heap |-> h]
Value(v, h) == [ok |-> TRUE, v |-> v, heap |-> h]

executeIdentifierCopy(node, sc, h) ==
  LET g == EnvGet(sc, node.name)
  IN IF ~g.ok THEN Threw(h)
     ELSE IF g.variable.value.t = "ref"
          THEN Value(VRef(Len(h) + 1), Append(h, h[g.variable.value.n]))
          ELSE Value(g.variable.value, h)

\* Interpreter.executeIdentifier
executeIdentifier(node, sc, h) ==
  LET g == EnvGet(sc, node.name)
  IN IF ~g.ok THEN Threw(h) ELSE Value(g.variable.value, h)

\* Interpreter.findDictKey: the 1-based position of the first key equal to
\* `key`, 0 for the code's -1.
findDictKeyNone(dict, key, h) == 0

FirstOf(hits) == IF hits = {} THEN 0 ELSE CHOOSE i \in hits : \A j \in hits : i <= j

findDictKey(dict, key, h) ==
  FirstOf({i \in 1..Len(dict.keys) : areEqual(dict.keys[i], key, h)})

ResolveIndexFromStart(idx, len) == IF idx < 0 \/ idx >= len THEN 0 ELSE idx + 1

\* The index resolution of executeIndexAccess and delete:list, for a whole
\* index, on a sequence of length len: the 1-based position, 0 when out of range.
ResolveIndex(idx, len) ==
  LET resolvedIdx == IF idx < 0 THEN len + idx ELSE idx
  IN IF resolvedIdx < 0 \/ resolvedIdx >= len THEN 0 ELSE resolvedIdx + 1

\* Interpreter.executeIndexAccess on the evaluated object and index
\* The element of elems at position p, 0 for an index out of range.
ElementAt(elems, p, h) == IF p = 0 THEN Threw(h) ELSE Value(elems[p], h)

\* The element of elems at the index idx = toNumber(index).
ElementOf(elems, idx, h) ==
  IF ~idx.ok THEN Threw(h) ELSE ElementAt(elems, ResolveIndex(idx.n, Len(elems)), h)

\* The characters of str, each as a string.
Chars(str) == [i \in 1..Len(str) |-> VStr(<<str[i]>>)]

IndexValue(obj, index, h) ==
  IF IsArray(obj, h) THEN ElementOf(h[obj.n].values, toNumber(index, h), h)
  ELSE IF isVoidDict(obj, h)
  THEN ElementAt(h[obj.n].values, findDictKey(h[obj.n], index, h), h)
  ELSE IF obj.t = "string" THEN ElementOf(Chars(obj.s), toNumber(index, h), h)
  ELSE Threw(h)

\* Arithmetic of JS numbers on the records [n, s] (the number n + 0.s).  It
\* is exact decimal arithmetic on finite numbers, which is what the doubles
\* of the code compute for the whole numbers and the halves of the model.
Larger(i, j) == IF i >= j THEN i ELSE j

Abs(i) == IF i < 0 THEN 0 - i ELSE i

\* x * 10^k as a whole number, for k >= Len(x.s)
Scaled(x, k) == x.n * Pow10(k) + DigitsValue(x.s) * Pow10(k - Len(x.s))

\* The number v / 10^k
FromScaled(v, k) ==
  VFloat(v \div Pow10(k), StripZeros(PadZeros(NatToString(v % Pow10(k)), k)))

Digs(x, y) == Larger(Len(x.s), Len(y.s))

NumAdd(x, y) == FromScaled(Scaled(x, Digs(x, y)) + Scaled(y, Digs(x, y)), Digs(x, y))

NumSub(x, y) == FromScaled(Scaled(x, Digs(x, y)) - Scaled(y, Digs(x, y)), Digs(x, y))

NumMul(x, y) ==
  FromScaled(Scaled(x, Digs(x, y)) * Scaled(y, Digs(x, y)), 2 * Digs(x, y))

\* a / b truncated toward zero, and the remainder with the sign of a (b # 0)
Trunc(a, b) ==
  IF (a < 0) = (b < 0) THEN Abs(a) \div Abs(b) ELSE 0 - (Abs(a) \div Abs(b))

Rem(a, b) == IF a < 0 THEN 0 - (Abs(a) % Abs(b)) ELSE Abs(a) % Abs(b)

\* x % y of JS, y # 0
NumMod(x, y) ==
  FromScaled(Rem(Scaled(x, Digs(x, y)), Scaled(y, Digs(x, y))), Digs(x, y))

\* x / y of JS, y # 0, for a quotient that is a whole number
NumDiv(x, y) == VNum(Trunc(Scaled(x, Digs(x, y)), Scaled(y, Digs(x, y))))

RECURSIVE Power(_, _)
Power(b, e) == IF e = 0 THEN 1 ELSE b * Power(b, e - 1)

\* Math.pow(x, y) for a whole y >= 0
NumPow(x, y) == FromScaled(Power(Scaled(x, Len(x.s)), y.n), Len(x.s) * y.n)

\* x < y of JS numbers, the infinite ones included
NumLess(x, y) ==
  IF x.s = Inf THEN x.n < 0 /\ ~(y.s = Inf /\ y.n < 0)
  ELSE IF y.s = Inf THEN y.n > 0
  ELSE Scaled(x, Digs(x, y)) < Scaled(y, Digs(x, y))

\* The cases of executeBinaryExpr that call this.toNumber on both operands,
\* for its outcomes x and y
NumericValue(op, x, y, h) ==
  IF ~x.ok \/ ~y.ok THEN Threw(h)
  ELSE CASE op = "-" -> Value(NumSub(x, y), h)
         [] op = "*" -> Value(NumMul(x, y), h)
         [] op = "/" -> IF y.n = 0 /\ y.s = <<>> THEN Threw(h) ELSE Value(NumDiv(x, y), h)
         [] op = "%" -> IF y.n = 0 /\ y.s = <<>> THEN Threw(h) ELSE Value(NumMod(x, y), h)
         [] op = "**" -> Value(NumPow(x, y), h)
         [] op = "<" -> Value(VBool(NumLess(x, y)), h)
         [] op = ">" -> Value(VBool(NumLess(y, x)), h)
         [] op = "<=" -> Value(VBool(NumLess(x, y) \/ x = y), h)
         [] op = ">=" -> Value(VBool(NumLess(y, x) \/ x = y), h)

\* Interpreter.executeBinaryExpr on the evaluated operands
BinaryValue(op, l, r, h) ==
  CASE op = "+" ->
         IF l.t = "string" \/ r.t = "string"
         THEN Value(VStr(stringify(l, h) \o stringify(r, h)), h)
         ELSE IF l.t = "number" /\ r.t = "number" THEN Value(NumAdd(l, r), h)
         ELSE IF IsArray(l, h) /\ IsArray(r, h)
         THEN Value(VRef(Len(h) + 1),
                    Append(h, NewArray(h[l.n].values \o h[r.n].values)))
         ELSE Threw(h)
    [] op \in {"-", "*", "/", "%", "**", "<", ">", "<=", ">="} ->
         CHOOSE v \in {NumericValue(op, x, y, h) :
                         x \in {toNumber(l, h)}, y \in {toNumber(r, h)}} : TRUE
    [] op = "==" -> Value(VBool(areEqual(l, r, h)), h)
    [] op = "!=" -> Value(VBool(~areEqual(l, r, h)), h)
    [] op = "&&" -> Value(VBool(isTruthy(l, h) /\ isTruthy(r, h)), h)
    [] op = "||" -> Value(VBool(isTruthy(l, h) \/ isTruthy(r, h)), h)
    [] OTHER -> Threw(h)

\* Interpreter.executeFunctionCall on the evaluated arguments
FunctionValue(name, args, h) ==
  CASE name = "toInt" ->
         IF Len(args) # 1 THEN Threw(h) ELSE Value(toInt(args[1], h), h)
    [] name = "toString" ->
         IF Len(args) # 1 THEN Threw(h) ELSE Value(toString(args[1], h), h)
    [] name = "toBool" ->
         IF Len(args) # 1 THEN Threw(h) ELSE Value(toBool(args[1], h), h)
    [] name = "length" ->
         IF Len(args) # 1 THEN Threw(h)
         ELSE IF IsArray(args[1], h) THEN Value(VNum(Len(h[args[1].n].values)), h)
         ELSE IF isVoidDict(args[1], h) THEN Value(VNum(Len(h[args[1].n].keys)), h)
         ELSE Value(VNum(Len(JsString(args[1], h))), h)
    [] OTHER -> Threw(h)

RECURSIVE executeNode(_, _, _)
RECURSIVE EvalAll(_, _, _)

Cons(v, rest) == [ok |-> rest.ok, vs |-> <<v>> \o rest.vs, heap |-> rest.heap]

EvalRest(nodes, sc, first) ==
  IF ~first.ok THEN [ok |-> FALSE, vs |-> <<>>, heap |-> first.heap]
  ELSE Cons(first.v, EvalAll(Tail(nodes), sc, first.heap))

\* Evaluates the nodes in order (node.args.map, the loops of the literals,
\* the operands of a binary expression): [ok, vs, heap]; the first node that
\* throws ends it.
EvalAll(nodes, sc, h) ==
  IF nodes = <<>> THEN [ok |-> TRUE, vs |-> <<>>, heap |-> h]
  ELSE EvalRest(nodes, sc, executeNode(nodes[1], sc, h))

ListOf(r) ==
  IF ~r.ok THEN Threw(r.heap)
  ELSE Value(VRef(Len(r.heap) + 1), Append(r.heap, NewArray(r.vs)))

\* Interpreter.executeListLiteral
executeListLiteral(node, sc, h) == ListOf(EvalAll(node.elements, sc, h))

\* key, value, key, value, ... of the entries of a dict literal
EntryNodes(entries) ==
  [i \in 1..(2 * Len(entries)) |->
     IF i % 2 = 1 THEN entries[(i + 1) \div 2].key ELSE entries[i \div 2].value]

\* The VoidDict built by executeDictLiteral from the evaluated entries: every
\* key and value is pushed.
DictOf(r) ==
  IF ~r.ok THEN Threw(r.heap)
  ELSE Value(VRef(Len(r.heap) + 1),
             Append(r.heap,
                    [kind |-> "dict",
                     keys |-> [i \in 1..(Len(r.vs) \div 2) |-> r.vs[2 * i - 1]],
                     values |-> [i \in 1..(Len(r.vs) \div 2) |-> r.vs[2 * i]]]))

\* Interpreter.executeDictLiteral
executeDictLiteral(node, sc, h) == DictOf(EvalAll(EntryNodes(node.entries), sc, h))

IndexOf(r) ==
  IF ~r.ok THEN Threw(r.heap) ELSE IndexValue(r.vs[1], r.vs[2], r.heap)

\* Interpreter.executeIndexAccess
executeIndexAccess(node, sc, h) == IndexOf(EvalAll(<<node.object, node.index>>, sc, h))

BinaryOf(op, r) ==
  IF ~r.ok THEN Threw(r.heap) ELSE BinaryValue(op, r.vs[1], r.vs[2], r.heap)

ShortOf(node, sc, l) ==
  IF ~l.ok THEN Threw(l.heap)
  ELSE IF node.operator = "&&" /\ ~isTruthy(l.v, l.heap)
  THEN Value(VBool(FALSE), l.heap)
  ELSE IF node.operator = "||" /\ isTruthy(l.v, l.heap)
  THEN Value(VBool(TRUE), l.heap)
  ELSE BinaryOf(node.operator, EvalRest(<<node.left, node.right>>, sc, l))

executeBinaryExprShort(node, sc, h) == ShortOf(node, sc, executeNode(node.left, sc, h))

\* Interpreter.executeBinaryExpr
executeBinaryExpr(node, sc, h) ==
  BinaryOf(node.operator, EvalAll(<<node.left, node.right>>, sc, h))

FunctionOf(name, r) ==
  IF ~r.ok THEN Threw(r.heap) ELSE FunctionValue(name, r.vs, r.heap)

\* Interpreter.executeFunctionCall
executeFunctionCall(node, sc, h) == FunctionOf(node.name, EvalAll(node.args, sc, h))

\* -this.toNumber(operand), for the outcome x of toNumber
Minus(x, h) ==
  IF ~x.ok THEN Threw(h)
  ELSE Value(VFloat(Negate(x.n, x.s).n, Negate(x.n, x.s).s), h)

UnaryValue(op, operand, h) ==
  CASE op = "-" -> Minus(toNumber(operand, h), h)
    [] op = "!" -> Value(VBool(~isTruthy(operand, h)), h)
    [] OTHER -> Threw(h)

UnaryOf(op, r) == IF ~r.ok THEN Threw(r.heap) ELSE UnaryValue(op, r.v, r.heap)

\* Interpreter.executeUnaryExpr
executeUnaryExpr(node, sc, h) == UnaryOf(node.operator, executeNode(node.operand, sc, h))

\* Interpreter.executeNode, the expression cases
executeNode(node, sc, h) ==
  CASE node.type = "NumberLiteral" -> Value(VNum(node.value), h)
    [] node.type = "FloatLiteral" -> Value(node.value, h)
    [] node.type = "UnaryExpr" -> executeUnaryExpr(node, sc, h)
    [] node.type = "StringLiteral" -> Value(VStr(node.value), h)
    [] node.type = "BoolLiteral" -> Value(VBool(node.value), h)
    [] node.type = "Identifier" -> executeIdentifier(node, sc, h)
    [] node.type = "ListLiteral" -> executeListLiteral(node, sc, h)
    [] node.type = "DictLiteral" -> executeDictLiteral(node, sc, h)
    [] node.type = "IndexAccess" -> executeIndexAccess(node, sc, h)
    [] node.type = "BinaryExpr" -> executeBinaryExpr(node, sc, h)
    [] node.type = "FunctionCall" -> executeFunctionCall(node, sc, h)
    [] OTHER -> Threw(h)

-----------------------------------------------------------------------------
(* Statements.  Executing one yields [ok, scopes, heap, out]: ok = FALSE   *)
(* when it throws, out the lines it wrote.                                 *)

Fail(sc, h) == [ok |-> FALSE, scopes |-> sc, heap |-> h, out |-> <<>>]
Done(sc, h) == [ok |-> TRUE, scopes |-> sc, heap |-> h, out |-> <<>>]

\* Number(value) of castValue
JsNumber(v, h) ==
  CASE v.t = "null" -> Num(0)
    [] v.t = "bool" -> Num(v.n)
    [] v.t = "number" -> NumFrac(v.n, v.s)
    [] v.t = "string" -> StringToNumber(v.s)
    [] v.t = "ref" /\ h[v.n].kind = "list" -> StringToNumber(JsString(v, h))
    [] OTHER -> NaN

\* Math.floor(num): of the number n + 0.s it is n, of an infinite number the
\* number itself.
Floor(num) == IF num.s = Inf THEN VFloat(num.n, Inf) ELSE VNum(num.n)

\* case "float" of castValue, for num = Number(value)
CastFloat(num) ==
  IF num.nan THEN [ok |-> FALSE, v |-> VNull]
  ELSE [ok |-> TRUE, v |-> VFloat(num.n, num.s)]

\* case "int" of castValue, for num = Number(value)
CastInt(num) ==
  IF num.nan THEN [ok |-> FALSE, v |-> VNull] ELSE [ok |-> TRUE, v |-> Floor(num)]

castValueNoFloor(v, type, h) ==
  CASE type = "string" -> [ok |-> TRUE, v |-> VStr(stringify(v, h))]
    [] type \in {"int", "float"} -> CastFloat(JsNumber(v, h))
    [] type = "bool" -> [ok |-> TRUE, v |-> VBool(isTruthy(v, h))]
    [] OTHER -> [ok |-> TRUE, v |-> v]

\* Interpreter.castValue: [ok, v].
castValue(v, type, h) ==
  CASE type = "string" -> [ok |-> TRUE, v |-> VStr(stringify(v, h))]
    [] type = "int" -> CastInt(JsNumber(v, h))
    [] type = "float" -> CastFloat(JsNumber(v, h))
    [] type = "bool" -> [ok |-> TRUE, v |-> VBool(isTruthy(v, h))]
    [] OTHER -> [ok |-> TRUE, v |-> v]

DefineOf(sc, h, d) == IF ~d.ok THEN Fail(sc, h) ELSE Done(d.scopes, h)

CastAndDefine(node, sc, h, c) ==
  IF ~c.ok THEN Fail(sc, h)
  ELSE DefineOf(sc, h, EnvDefine(sc, node.name, node.varType, c.v))

\* executeCreateVar after the evaluation r of node.value
CreateVarOf(node, sc, r) ==
  IF ~r.ok THEN Fail(sc, r.heap)
  ELSE IF node.varType # "list" /\ node.varType # "dict"
  THEN CastAndDefine(node, sc, r.heap, castValue(r.v, node.varType, r.heap))
  ELSE IF node.varType = "list" /\ ~IsArray(r.v, r.heap) THEN Fail(sc, r.heap)
  ELSE IF node.varType = "dict" /\ ~isVoidDict(r.v, r.heap) THEN Fail(sc, r.heap)
  ELSE DefineOf(sc, r.heap, EnvDefine(sc, node.name, node.varType, r.v))

\* Interpreter.executeCreateVar
executeCreateVar(node, sc, h) == CreateVarOf(node, sc, executeNode(node.value, sc, h))

CastAndSet(node, sc, h, c) ==
  IF ~c.ok THEN Fail(sc, h) ELSE Done(EnvSet(sc, node.name, c.v).scopes, h)

\* executeAssignVar after env.get found `variable` and node.value was
\* evaluated to r: a list or dict variable takes the value as it is.
AssignVarOf(node, sc, variable, r) ==
  IF ~r.ok THEN Fail(sc, r.heap)
  ELSE IF variable.type # "list" /\ variable.type # "dict"
  THEN CastAndSet(node, sc, r.heap, castValue(r.v, variable.type, r.heap))
  ELSE Done(EnvSet(sc, node.name, r.v).scopes, r.heap)

\* Interpreter.executeAssignVar
executeAssignVar(node, sc, h) ==
  IF ~EnvGet(sc, node.name).ok THEN Fail(sc, h)
  ELSE AssignVarOf(node, sc, EnvGet(sc, node.name).variable,
                   executeNode(node.value, sc, h))

\* Parser.parseIdentifierStatement, the branch `name[index] = expr;`: the
\* node built is an AssignVar whose name is name + "[]"; the index expression
\* is parsed and not stored.
IndexedName(name) == CASE name = "a" -> "a[]" [] name = "b" -> "b[]"

ParseIndexAssign(name, index, value) == AssignVarNode(IndexedName(name), value)

AddListOf(sc, obj, r) ==
  IF ~r.ok THEN Fail(sc, r.heap)
  ELSE Done(sc, [r.heap EXCEPT ![obj.n].values = Append(@, r.v)])

AddDictAtAppend(sc, obj, r, existingIdx) ==
  Done(sc, [r.heap EXCEPT ![obj.n].keys = Append(@, r.vs[1]),
                          ![obj.n].values = Append(@, r.vs[2])])

AddDictAt(sc, obj, r, existingIdx) ==
  IF existingIdx # 0
  THEN Done(sc, [r.heap EXCEPT ![obj.n].values[existingIdx] = r.vs[2]])
  ELSE Done(sc, [r.heap EXCEPT ![obj.n].keys = Append(@, r.vs[1]),
                               ![obj.n].values = Append(@, r.vs[2])])

AddDictOf(sc, obj, r) ==
  IF ~r.ok THEN Fail(sc, r.heap)
  ELSE AddDictAt(sc, obj, r, findDictKey(r.heap[obj.n], r.vs[1], r.heap))

\* Interpreter.executeMethodAdd
executeMethodAdd(node, sc, h, variable) ==
  IF node.collectionType = "list"
  THEN IF ~IsArray(variable.value, h) \/ Len(node.args) # 1 THEN Fail(sc, h)
       ELSE AddListOf(sc, variable.value, executeNode(node.args[1], sc, h))
  ELSE IF node.collectionType = "dict"
  THEN IF ~isVoidDict(variable.value, h) \/ Len(node.args) # 2 THEN Fail(sc, h)
       ELSE AddDictOf(sc, variable.value, EvalAll(node.args, sc, h))
  ELSE Done(sc, h)

\* seq without its element at position p
Splice(seq, p) == SubSeq(seq, 1, p - 1) \o SubSeq(seq, p + 1, Len(seq))

DeleteListAt(sc, obj, h, idx) ==
  IF ~idx.ok \/ ResolveIndex(idx.n, Len(h[obj.n].values)) = 0 THEN Fail(sc, h)
  ELSE Done(sc, [h EXCEPT ![obj.n].values =
                             Splice(@, ResolveIndex(idx.n, Len(h[obj.n].values)))])

DeleteListOf(sc, obj, r) ==
  IF ~r.ok THEN Fail(sc, r.heap)
  ELSE DeleteListAt(sc, obj, r.heap, toNumber(r.v, r.heap))

DeleteDictAtKeyOnly(sc, obj, h, keyIdx) ==
  IF keyIdx = 0 THEN Fail(sc, h)
  ELSE Done(sc, [h EXCEPT ![obj.n].keys = Splice(@, keyIdx)])

DeleteDictAt(sc, obj, h, keyIdx) ==
  IF keyIdx = 0 THEN Fail(sc, h)
  ELSE Done(sc, [h EXCEPT ![obj.n].keys = Splice(@, keyIdx),
                          ![obj.n].values = Splice(@, keyIdx)])

DeleteDictOf(sc, obj, r) ==
  IF ~r.ok THEN Fail(sc, r.heap)
  ELSE DeleteDictAt(sc, obj, r.heap, findDictKey(r.heap[obj.n], r.v, r.heap))

\* Interpreter.executeMethodDelete
executeMethodDelete(node, sc, h, variable) ==
  IF node.collectionType = "list"
  THEN IF ~IsArray(variable.value, h) \/ Len(node.args) # 1 THEN Fail(sc, h)
       ELSE DeleteListOf(sc, variable.value, executeNode(node.args[1], sc, h))
  ELSE IF node.collectionType = "dict"
  THEN IF ~isVoidDict(variable.value, h) \/ Len(node.args) # 1 THEN Fail(sc, h)
       ELSE DeleteDictOf(sc, variable.value, executeNode(node.args[1], sc, h))
  ELSE Done(sc, h)

\* Interpreter.executeMethodClear
executeMethodClear(node, sc, h, variable) ==
  IF node.collectionType = "list"
  THEN IF ~IsArray(variable.value, h) \/ Len(node.args) # 0 THEN Fail(sc, h)
       ELSE Done(sc, [h EXCEPT ![variable.value.n].values = <<>>])
  ELSE IF node.collectionType = "dict"
  THEN IF ~isVoidDict(variable.value, h) \/ Len(node.args) # 0 THEN Fail(sc, h)
       ELSE Done(sc, [h EXCEPT ![variable.value.n].keys = <<>>,
                               ![variable.value.n].values = <<>>])
  ELSE Done(sc, h)

MethodOf(node, sc, h, g) ==
  IF ~g.ok THEN Fail(sc, h)
  ELSE CASE node.method = "add" -> executeMethodAdd(node, sc, h, g.variable)
         [] node.method = "delete" -> executeMethodDelete(node, sc, h, g.variable)
         [] node.method = "clear" -> executeMethodClear(node, sc, h, g.variable)
         [] OTHER -> Fail(sc, h)

\* Interpreter.executeMethodCall
executeMethodCall(node, sc, h) == MethodOf(node, sc, h, EnvGet(sc, node.object))

\* A line of stdout.
Line(kind, text) == [kind |-> kind, text |-> text]

EchoOf(sc, r) ==
  IF ~r.ok THEN Fail(sc, r.heap)
  ELSE [ok |-> TRUE, scopes |-> sc, heap |-> r.heap,
        out |-> <<Line("echo",
                       Join([i \in 1..Len(r.vs) |-> stringify(r.vs[i], r.heap)],
                            <<" ">>))>>]

\* Interpreter.executeEcho
executeEcho(node, sc, h) == EchoOf(sc, EvalAll(node.expressions, sc, h))

-----------------------------------------------------------------------------
(* Blocks and loops.                                                       *)

\* const MAX_ITERATIONS = 1000000
MAX_ITERATIONS == 1000000

ExceedsNever(n) == FALSE

\* if (iterations > MAX_ITERATIONS) throw
Exceeds(n) == n > MAX_ITERATIONS

StatusAfterSwallow(ok) == "running"

\* runFile's catch: an error thrown by a statement ends the run
\* (process.exit(1)); otherwise execution goes on.
StatusAfter(ok) == IF ok THEN "running" ELSE "error"

BlockEnvShared(sc) == sc

\* executeBlock: const blockEnv = new Environment(parentEnv)
BlockEnv(sc) == Append(sc, NewEnvironment)

ForEnvShared(sc) == sc

\* executeFor: const forEnv = new Environment(env)
ForEnv(sc) == Append(sc, NewEnvironment)

\* executeBlock returns: blockEnv is dropped, the parent is current again.
BlockReturn(sc) == SubSeq(sc, 1, Len(sc) - 1)

-----------------------------------------------------------------------------
(* The run of a program: runFile's try block calls Interpreter.execute,    *)
(* which writes the header, executes the top-level forms and writes the    *)
(* footer.  The statements of the program are the nodes the actions are    *)
(* given, one step per statement.  `steps` is the number of statements     *)
(* and blocks the run may still start.                                     *)

InBlock == status = "running" /\ Len(scopes) >= 2 /\ steps > 0

Commit(r) ==
  /\ scopes' = r.scopes
  /\ heap' = r.heap
  /\ out' = out \o r.out
  /\ status' = StatusAfter(r.ok)
  /\ failed' = (failed \/ ~r.ok)
  /\ steps' = steps - 1

NoAlias == [set |-> FALSE, a |-> "a", b |-> "a"]
NoAdded == [on |-> FALSE, addr |-> 0, keys |-> <<>>]

\* History: `name = other;` or `create:T name = other;` has just bound name
\* to the container held by the variable other.
AliasAfter(node, r) ==
  IF r.ok /\ node.value.type = "Identifier" /\ node.value.name # node.name
     /\ EnvGet(scopes, node.value.name).variable.value.t = "ref"
     /\ EnvGet(r.scopes, node.name).variable.value.t = "ref"
  THEN [set |-> TRUE, a |-> node.value.name, b |-> node.name]
  ELSE IF r.ok /\ alias.set /\ node.name \in {alias.a, alias.b} THEN NoAlias
  ELSE alias

\* Interpreter.execute, up to the loop over program.body
ExecuteStart ==
  /\ status = "init"
  /\ \E style \in BOOLEAN :
       out' = <<Line("header", <<>>)>>
              \o (IF style THEN <<Line("style", <<>>)>> ELSE <<>>)
              \o <<Line("blank", <<>>)>>
  /\ status' = "running"
  /\ last' = [op |-> "Start", ok |-> TRUE]
  /\ UNCHANGED <<scopes, heap, steps, failed, declared, ended, alias, added,
                 loopVars, convVars, fnVars, control>>

\* executeBlock starts: the body of main (from globalEnv) or of a nested
\* if/while/for block, up to nesting depth `limit`.
EnterBlock(limit) ==
  /\ status = "running"
  /\ steps > 0
  /\ Len(scopes) < limit
  /\ scopes' = BlockEnv(scopes)
  /\ declared' = Append(declared, {})
  /\ steps' = steps - 1
  /\ last' = [op |-> "EnterBlock", ok |-> TRUE]
  /\ UNCHANGED <<status, heap, out, failed, ended, alias, added, loopVars, convVars,
                 fnVars, control>>

\* executeBlock returns after the last statement of the block.
ExitBlock ==
  /\ status = "running"
  /\ Len(scopes) >= 2
  /\ scopes' = BlockReturn(scopes)
  /\ ended' = ended \cup declared[Len(declared)]
  /\ declared' = SubSeq(declared, 1, Len(declared) - 1)
  /\ alias' = NoAlias
  /\ last' = [op |-> "ExitBlock", ok |-> TRUE]
  /\ UNCHANGED <<status, heap, out, steps, failed, added, loopVars, convVars, fnVars, control>>

\* Interpreter.execute after the loop over program.body: the footer.
ExecuteFinish ==
  /\ status = "running"
  /\ Len(scopes) = 1
  /\ out' = out \o <<Line("blank", <<>>), Line("footer", <<>>)>>
  /\ status' = "done"
  /\ last' = [op |-> "Finish", ok |-> TRUE]
  /\ UNCHANGED <<scopes, heap, steps, failed, declared, ended, alias, added,
                 loopVars, convVars, fnVars, control>>

\* History: a create:dict that bound an empty dict starts the record of the
\* keys added to that dict.
AddedAfterCreate(node, r, v) ==
  IF r.ok /\ node.varType = "dict" /\ r.heap[v.n].keys = <<>>
  THEN [on |-> TRUE, addr |-> v.n, keys |-> <<>>]
  ELSE added

\* History: the binding the current scope held for `name` before the
\* statement (Unbound when it held none), and the printed form of its value.
BindingBefore(name) ==
  [had |-> VariablesHas(scopes[Len(scopes)], name),
   variable |-> scopes[Len(scopes)][name],
   text |-> stringify(scopes[Len(scopes)][name].value, heap)]

CreateVarStep(node, r) ==
  /\ Commit(r)
  /\ last' = [op |-> "CreateVar", node |-> node, ok |-> r.ok,
              before |-> BindingBefore(node.name)]
  /\ declared' = IF r.ok
                 THEN [declared EXCEPT ![Len(declared)] = @ \cup {node.name}]
                 ELSE declared
  /\ alias' = AliasAfter(node, r)
  /\ added' = AddedAfterCreate(node, r, EnvGet(r.scopes, node.name).variable.value)

\* create:<type> name = expr;
CreateVar(node) ==
  /\ InBlock
  /\ \E r \in {executeCreateVar(node, scopes, heap)} : CreateVarStep(node, r)
  /\ UNCHANGED <<ended, loopVars, convVars, fnVars, control>>

AssignVarStep(node, r) ==
  /\ Commit(r)
  /\ last' = [op |-> "AssignVar", node |-> node, ok |-> r.ok]
  /\ alias' = AliasAfter(node, r)

\* name = expr;
AssignVar(node) ==
  /\ InBlock
  /\ \E r \in {executeAssignVar(node, scopes, heap)} : AssignVarStep(node, r)
  /\ UNCHANGED <<declared, ended, added, loopVars, convVars, fnVars, control>>

\* History: whether name holds a list and index evaluates to a position of it.
ValidIndex(g, idx) ==
  /\ g.ok
  /\ IsArray(g.variable.value, heap)
  /\ idx.ok
  /\ idx.v.t = "number"
  /\ ResolveIndex(idx.v.n, Len(heap[g.variable.value.n].values)) # 0

IndexAssignStep(name, index, value, r) ==
  /\ Commit(r)
  /\ last' = [op |-> "IndexAssign", name |-> name, index |-> index,
              value |-> value, ok |-> r.ok,
              valid |-> ValidIndex(EnvGet(scopes, name),
                                   executeNode(index, scopes, heap))]

\* name[index] = expr;
IndexAssign(name, index, value) ==
  /\ InBlock
  /\ \E r \in {executeAssignVar(ParseIndexAssign(name, index, value), scopes, heap)} :
       IndexAssignStep(name, index, value, r)
  /\ UNCHANGED <<declared, ended, alias, added, loopVars, convVars, fnVars, control>>

\* History: the keys passed to add:dict on the recorded dict; delete and
\* clear end the record.
AddedAfterCall(node, r, obj) ==
  IF r.ok /\ added.on /\ node.collectionType = "dict" /\ obj.n = added.addr
  THEN IF node.method = "add"
       THEN [added EXCEPT !.keys = Append(@, executeNode(node.args[1], scopes, heap).v)]
       ELSE NoAdded
  ELSE added

MethodCallStep(node, r) ==
  /\ Commit(r)
  /\ last' = [op |-> "MethodCall", node |-> node, ok |-> r.ok]
  /\ added' = AddedAfterCall(node, r, EnvGet(scopes, node.object).variable.value)

\* name.add:list(v); name.add:dict(k:v); name.delete:...(x); name.clear:...();
MethodCall(node) ==
  /\ InBlock
  /\ \E r \in {executeMethodCall(node, scopes, heap)} : MethodCallStep(node, r)
  /\ UNCHANGED <<declared, ended, alias, loopVars, convVars, fnVars, control>>

EchoStep(node, r) ==
  /\ Commit(r)
  /\ last' = [op |-> "Echo", node |-> node, ok |-> r.ok]

\* echo(expr, ...);
Echo(node) ==
  /\ InBlock
  /\ \E r \in {executeEcho(node, scopes, heap)} : EchoStep(node, r)
  /\ UNCHANGED <<declared, ended, alias, added, loopVars, convVars, fnVars, control>>

\* The lines Interpreter.execute writes before and after the body.
Header(program) ==
  <<Line("header", <<>>)>>
  \o (IF program.style THEN <<Line("style", <<>>)>> ELSE <<>>)
  \o <<Line("blank", <<>>)>>

Footer == <<Line("blank", <<>>), Line("footer", <<>>)>>

-----------------------------------------------------------------------------
(* The run of a whole program, the argument fnArgs[1] of                   *)
(* Interpreter.execute.  `control` holds what the calls in progress have   *)
(* still to do, the innermost first: the statements left of a block, the   *)
(* return of a block, the next test of a loop, what follows a loop body.   *)

\* The statements `stmts` are still to execute, in order.
Stmts(stmts) == [k |-> "stmts", stmts |-> stmts]
\* executeBlock (or executeFor) returns to the scope chain of length depth.
EndBlock(depth) == [k |-> "endBlock", depth |-> depth]
\* The condition of the while or for loop `node` is evaluated next, after
\* `passes` passes.
WhileHead(node, passes) == [k |-> "while", node |-> node, passes |-> passes]
ForHead(node, passes) == [k |-> "for", node |-> node, passes |-> passes]
\* The body of the for loop has returned: the update is next.
ForUpdate(node, passes) == [k |-> "forUpdate", node |-> node, passes |-> passes]
\* iterations++ and the ceiling check are next.
LoopAfter(kind, node, passes) ==
  [k |-> "after", kind |-> kind, node |-> node, passes |-> passes]

\* `stmts` (absent optional nodes left out) before what is in k
PushStmts(stmts, k) ==
  IF SelectSeq(stmts, LAMBDA n : n.type # "None") = <<>> THEN k
  ELSE <<Stmts(SelectSeq(stmts, LAMBDA n : n.type # "None"))>> \o k

Running == fnPc = "run" /\ status = "running" /\ control # <<>>

\* The next statement of the innermost block, and what is to do after it.
AtStatement == Running /\ control[1].k = "stmts"
Current == control[1].stmts[1]
Continue == PushStmts(Tail(control[1].stmts), Tail(control))

RunVarsUnchanged ==
  UNCHANGED <<steps, declared, ended, alias, added, fnArgs, fnRes, loopVars, convVars>>

\* Interpreter.execute up to the loop over program.body
RunExecute ==
  /\ fnPc = "args"
  /\ status = "init"
  /\ out' = Header(fnArgs[1])
  /\ status' = "running"
  /\ control' = PushStmts(fnArgs[1].body, <<>>)
  /\ fnPc' = "run"
  /\ last' = [op |-> "Start", ok |-> TRUE]
  /\ UNCHANGED <<scopes, heap, failed>>
  /\ RunVarsUnchanged

SimpleStep(node, r) ==
  /\ scopes' = r.scopes
  /\ heap' = r.heap
  /\ out' = out \o r.out
  /\ status' = StatusAfter(r.ok)
  /\ failed' = (failed \/ ~r.ok)
  /\ control' = IF r.ok THEN Continue ELSE control
  /\ last' = [op |-> node.type, node |-> node, ok |-> r.ok]

\* case "Echo"
RunEcho ==
  /\ AtStatement
  /\ Current.type = "Echo"
  /\ \E node \in {Current} :
       \E r \in {executeEcho(node, scopes, heap)} : SimpleStep(node, r)
  /\ fnPc' = fnPc
  /\ RunVarsUnchanged

\* case "CreateVar"
RunCreateVar ==
  /\ AtStatement
  /\ Current.type = "CreateVar"
  /\ \E node \in {Current} :
       \E r \in {executeCreateVar(node, scopes, heap)} : SimpleStep(node, r)
  /\ fnPc' = fnPc
  /\ RunVarsUnchanged

\* case "AssignVar"
RunAssignVar ==
  /\ AtStatement
  /\ Current.type = "AssignVar"
  /\ \E node \in {Current} :
       \E r \in {executeAssignVar(node, scopes, heap)} : SimpleStep(node, r)
  /\ fnPc' = fnPc
  /\ RunVarsUnchanged

\* case "MethodCall"
RunMethodCall ==
  /\ AtStatement
  /\ Current.type = "MethodCall"
  /\ \E node \in {Current} :
       \E r \in {executeMethodCall(node, scopes, heap)} : SimpleStep(node, r)
  /\ fnPc' = fnPc
  /\ RunVarsUnchanged

\* executeMain and executeBlock start: blockEnv, then the statements.
RunBlock ==
  /\ AtStatement
  /\ Current.type \in {"Main", "Block"}
  /\ scopes' = BlockEnv(scopes)
  /\ control' = PushStmts(IF Current.type = "Main" THEN Current.body.statements
                          ELSE Current.statements,
                          <<EndBlock(Len(scopes))>> \o Continue)
  /\ last' = [op |-> "Block", ok |-> TRUE]
  /\ UNCHANGED <<status, heap, out, failed, fnPc>>
  /\ RunVarsUnchanged

\* executeBlock and executeFor return.
RunBlockEnd ==
  /\ Running
  /\ control[1].k = "endBlock"
  /\ scopes' = SubSeq(scopes, 1, control[1].depth)
  /\ control' = Tail(control)
  /\ last' = [op |-> "BlockEnd", ok |-> TRUE]
  /\ UNCHANGED <<status, heap, out, failed, fnPc>>
  /\ RunVarsUnchanged

\* The outcome c of a condition: the run goes on with `then` when it is
\* truthy, with `else` when it is not, and ends when it threw.
TestStep(c, then, else) ==
  /\ heap' = c.heap
  /\ status' = StatusAfter(c.ok)
  /\ failed' = (failed \/ ~c.ok)
  /\ control' = IF ~c.ok THEN control
                ELSE IF isTruthy(c.v, c.heap) THEN then ELSE else
  /\ UNCHANGED <<scopes, out, fnPc>>
  /\ RunVarsUnchanged

\* Interpreter.executeIf
RunIf ==
  /\ AtStatement
  /\ Current.type = "If"
  /\ \E c \in {executeNode(Current.condition, scopes, heap)} :
       TestStep(c, PushStmts(<<Current.thenBranch>>, Continue),
                PushStmts(<<Current.elseBranch>>, Continue))
  /\ last' = [op |-> "If", ok |-> TRUE]

\* Interpreter.executeWhile starts: let iterations = 0
RunWhile ==
  /\ AtStatement
  /\ Current.type = "While"
  /\ control' = <<WhileHead(Current, 0)>> \o Continue
  /\ last' = [op |-> "While", ok |-> TRUE]
  /\ UNCHANGED <<status, scopes, heap, out, failed, fnPc>>
  /\ RunVarsUnchanged

\* while (this.isTruthy(this.executeNode(node.condition, env))): the body
\* is executed by executeBlock, or the loop ends.
RunWhileTest ==
  /\ Running
  /\ control[1].k = "while"
  /\ \E c \in {executeNode(control[1].node.condition, scopes, heap)} :
       TestStep(c,
                <<Stmts(<<control[1].node.body>>),
                  LoopAfter("while", control[1].node, control[1].passes)>>
                \o Tail(control),
                Tail(control))
  /\ last' = [op |-> "WhileTest", ok |-> TRUE]

\* Interpreter.executeFor starts: forEnv, let iterations = 0, then init.
RunFor ==
  /\ AtStatement
  /\ Current.type = "For"
  /\ scopes' = ForEnv(scopes)
  /\ control' = PushStmts(<<Current.init>>,
                          <<ForHead(Current, 0), EndBlock(Len(scopes))>> \o Continue)
  /\ last' = [op |-> "For", ok |-> TRUE]
  /\ UNCHANGED <<status, heap, out, failed, fnPc>>
  /\ RunVarsUnchanged

\* The while of executeFor: the body is executed by executeBlock, or the
\* loop ends.
RunForTest ==
  /\ Running
  /\ control[1].k = "for"
  /\ \E c \in {executeNode(control[1].node.condition, scopes, heap)} :
       TestStep(c,
                <<Stmts(<<control[1].node.body>>),
                  ForUpdate(control[1].node, control[1].passes)>>
                \o Tail(control),
                Tail(control))
  /\ last' = [op |-> "ForTest", ok |-> TRUE]

\* if (node.update) this.executeNode(node.update, forEnv)
RunForUpdate ==
  /\ Running
  /\ control[1].k = "forUpdate"
  /\ control' = PushStmts(<<control[1].node.update>>,
                          <<LoopAfter("for", control[1].node, control[1].passes)>>
                          \o Tail(control))
  /\ last' = [op |-> "ForUpdate", ok |-> TRUE]
  /\ UNCHANGED <<status, scopes, heap, out, failed, fnPc>>
  /\ RunVarsUnchanged

LoopHeadRestarted(kind, node, passes) ==
  IF kind = "while" THEN WhileHead(node, 0) ELSE ForHead(node, 0)

\* The test of the loop is next, after one more pass.
LoopHead(kind, node, passes) ==
  IF kind = "while" THEN WhileHead(node, passes) ELSE ForHead(node, passes)

\* iterations++; if (iterations > MAX_ITERATIONS) throw
RunLoopAfter ==
  /\ Running
  /\ control[1].k = "after"
  /\ status' = StatusAfter(~Exceeds(control[1].passes + 1))
  /\ failed' = (failed \/ Exceeds(control[1].passes + 1))
  /\ control' = IF Exceeds(control[1].passes + 1) THEN control
                ELSE <<LoopHead(control[1].kind, control[1].node,
                                control[1].passes + 1)>> \o Tail(control)
  /\ last' = [op |-> "LoopAfter", ok |-> ~Exceeds(control[1].passes + 1)]
  /\ UNCHANGED <<scopes, heap, out, fnPc>>
  /\ RunVarsUnchanged

\* Interpreter.execute after the loop over program.body: the footer.
RunFinish ==
  /\ fnPc = "run"
  /\ status = "running"
  /\ control = <<>>
  /\ out' = out \o Footer
  /\ status' = "done"
  /\ fnPc' = "done"
  /\ last' = [op |-> "Finish", ok |-> TRUE]
  /\ UNCHANGED <<scopes, heap, failed, control>>
  /\ RunVarsUnchanged

-----------------------------------------------------------------------------
(* enum TokenType and class Lexer (src/src/tokens.ts, src/src/lexer.ts).   *)
(* The source text is a sequence of characters, this.pos the 1-based       *)
(* position pos.  A token is [type, value]; its line and column, which     *)
(* only error messages read, are left out.  A read function yields         *)
(* [ok, tok, pos]: ok = FALSE when it throws the lexer error.              *)

\* The members of the enum TokenType.
TokenTypes ==
  {"VOID_APP", "VOID_END", "VOID_FUNC", "VOID_IMPORT", "USING", "STYLE", "MAIN",
   "CREATE", "ECHO", "WRITE", "IF", "ELSE", "WHILE", "FOR", "RAND", "ADD", "DELETE",
   "CLEAR", "TYPE_STRING", "TYPE_INT", "TYPE_FLOAT", "TYPE_BOOL", "TYPE_VOID",
   "TYPE_LIST", "TYPE_DICT", "STRING_LITERAL", "INT_LITERAL", "FLOAT_LITERAL",
   "BOOL_LITERAL", "IDENTIFIER", "ASSIGN", "PLUS", "MINUS", "MULTIPLY", "DIVIDE",
   "MODULO", "POWER", "EQUALS", "NOT_EQUALS", "LESS", "GREATER", "LESS_EQ",
   "GREATER_EQ", "AND", "OR", "NOT", "LPAREN", "RPAREN", "LBRACE", "RBRACE",
   "SEMICOLON", "COMMA", "COLON", "EOF", "NEWLINE"}

\* TokenType.member: the member's value, a string equal to its name, and
\* the value `undefined` of a property the enum object does not have.
TokenType(member) == IF member \in TokenTypes THEN member ELSE "undefined"

\* createToken
Tok(type, value) == [type |-> type, value |-> value]

LErr == [ok |-> FALSE, tok |-> Tok("EOF", ""), pos |-> 0]
LOk(tok, pos) == [ok |-> TRUE, tok |-> tok, pos |-> pos]

\* The character "\0" that current and peek yield past the end of the text.
NUL == "NUL"

\* Lexer.current and Lexer.peek: the character at pos
CharAt(src, pos) == IF pos <= Len(src) THEN src[pos] ELSE NUL

Letters ==
  {"a", "b", "c", "d", "e", "f", "g", "h", "i", "j", "k", "l", "m", "n", "o", "p", "q",
   "r", "s", "t", "u", "v", "w", "x", "y", "z", "A", "B", "C", "D", "E", "F", "G", "H",
   "I", "J", "K", "L", "M", "N", "O", "P", "Q", "R", "S", "T", "U", "V", "W", "X", "Y",
   "Z"}

\* Lexer.isDigit, Lexer.isAlpha, Lexer.isAlphaNumeric
isDigit(ch) == IsDigit(ch)
isAlpha(ch) == ch \in Letters \/ ch = "_"
isAlphaNumeric(ch) == isAlpha(ch) \/ isDigit(ch)

RECURSIVE skipWhitespace(_, _)
\* Lexer.skipWhitespace: the position after the blanks at pos
skipWhitespace(src, pos) ==
  IF pos <= Len(src) /\ src[pos] \in {" ", "\t", "\r", "\n"}
  THEN skipWhitespace(src, pos + 1)
  ELSE pos

RECURSIVE skipSingleLineComment(_, _)
\* Lexer.skipSingleLineComment: the position of the line's end
skipSingleLineComment(src, pos) ==
  IF pos <= Len(src) /\ src[pos] # "\n"
  THEN skipSingleLineComment(src, pos + 1)
  ELSE pos

RECURSIVE CommentEnd(_, _)
\* The while of skipMultiLineComment: the position after `*#`, 0 when the
\* text ends before it (the lexer error).
CommentEnd(src, pos) ==
  IF pos > Len(src) THEN 0
  ELSE IF src[pos] = "*" /\ CharAt(src, pos + 1) = "#" THEN pos + 2
  ELSE CommentEnd(src, pos + 1)

\* Lexer.skipMultiLineComment at the `#` of `#*`
skipMultiLineComment(src, pos) == CommentEnd(src, pos + 2)

\* The switch of readString on the character after a backslash
Escaped(ch) ==
  CASE ch = "n" -> "\n"
    [] ch = "t" -> "\t"
    [] ch = "r" -> "\r"
    [] OTHER -> ch

RECURSIVE StringLoop(_, _, _, _)
\* The while of readString and what follows it
StringLoop(src, pos, quote, value) ==
  IF pos <= Len(src) /\ src[pos] # quote
  THEN IF src[pos] = "\\"
       THEN StringLoop(src, pos + 2, quote, Append(value, Escaped(CharAt(src, pos + 1))))
       ELSE StringLoop(src, pos + 1, quote, Append(value, src[pos]))
  ELSE IF pos > Len(src) THEN LErr
  ELSE LOk(Tok(TokenType("STRING_LITERAL"), value), pos + 1)

\* Lexer.readString at the opening quote
readString(src, pos) == StringLoop(src, pos + 1, src[pos], <<>>)

RECURSIVE DigitsEnd(_, _)
\* while (this.pos < this.source.length && this.isDigit(this.current()))
DigitsEnd(src, pos) ==
  IF pos <= Len(src) /\ isDigit(src[pos]) THEN DigitsEnd(src, pos + 1) ELSE pos

NumberToken(src, pos, type, end) == LOk(Tok(TokenType(type), SubSeq(src, pos, end - 1)), end)

\* readNumber after the digits before `end`
NumberAt(src, pos, end) ==
  IF CharAt(src, end) = "." /\ isDigit(CharAt(src, end + 1))
  THEN NumberToken(src, pos, "FLOAT_LITERAL", DigitsEnd(src, end + 1))
  ELSE NumberToken(src, pos, "INT_LITERAL", end)

\* Lexer.readNumber
readNumber(src, pos) == NumberAt(src, pos, DigitsEnd(src, pos))

RECURSIVE WordEnd(_, _)
\* while (this.pos < this.source.length && this.isAlphaNumeric(this.current()))
WordEnd(src, pos) ==
  IF pos <= Len(src) /\ isAlphaNumeric(src[pos]) THEN WordEnd(src, pos + 1) ELSE pos

RECURSIVE Text(_)
\* The string of the characters chs
Text(chs) == IF chs = <<>> THEN "" ELSE chs[1] \o Text(Tail(chs))

\* Lexer.keywords
Keywords ==
  [using |-> "USING", style |-> "STYLE", main |-> "MAIN", echo |-> "ECHO",
   write |-> "WRITE", if |-> "IF", else |-> "ELSE", while |-> "WHILE", for |-> "FOR",
   string |-> "TYPE_STRING", int |-> "TYPE_INT", float |-> "TYPE_FLOAT",
   bool |-> "TYPE_BOOL", true |-> "BOOL_LITERAL", false |-> "BOOL_LITERAL",
   rand |-> "RAND", list |-> "TYPE_LIST", dict |-> "TYPE_DICT", add |-> "ADD",
   delete |-> "DELETE", clear |-> "CLEAR"]

\* readIdentifier after the word `value`, which ends before `end`
IdentifierAt(src, value, end) ==
  IF value = "create" /\ CharAt(src, end) = ":"
  THEN LOk(Tok(TokenType("CREATE"), "create:"), end + 1)
  ELSE IF value \in DOMAIN Keywords THEN LOk(Tok(TokenType(Keywords[value]), value), end)
  ELSE LOk(Tok(TokenType("IDENTIFIER"), value), end)

WordAt(src, pos, end) == IdentifierAt(src, Text(SubSeq(src, pos, end - 1)), end)

\* Lexer.readIdentifier
readIdentifier(src, pos) == WordAt(src, pos, WordEnd(src, pos))

DirectiveOrEOF(value, end) ==
  CASE value = "@VoidApp" -> LOk(Tok(TokenType("VOID_APP"), value), end)
    [] value = "@VoidEnd" -> LOk(Tok(TokenType("VOID_END"), value), end)
    [] OTHER -> LOk(Tok(TokenType("EOF"), ""), end)

\* The switch of readDirective on the directive `value`, which ends before
\* `end`; this.error throws.
DirectiveAt(value, end) ==
  CASE value = "@VoidApp" -> LOk(Tok(TokenType("VOID_APP"), value), end)
    [] value = "@VoidEnd" -> LOk(Tok(TokenType("VOID_END"), value), end)
    [] OTHER -> LErr

DirectiveWord(src, pos, end) == DirectiveAt("@" \o Text(SubSeq(src, pos + 1, end - 1)), end)

\* Lexer.readDirective at the `@`
readDirective(src, pos) == DirectiveWord(src, pos, WordEnd(src, pos + 1))

\* The switch of tokenize on twoChar: the member of TokenType, "none" when
\* no case matches
TwoCharMember(twoChar) ==
  CASE twoChar = "**" -> "POWER"
    [] twoChar = "==" -> "EQUALS"
    [] twoChar = "!=" -> "NOT_EQUALS"
    [] twoChar = "<=" -> "LESS_EQ"
    [] twoChar = ">=" -> "GREATER_EQ"
    [] twoChar = "&&" -> "AND"
    [] twoChar = "||" -> "OR"
    [] OTHER -> "none"

\* The switch of tokenize on ch: the member of TokenType, "none" for the
\* default case
OneCharMember(ch) ==
  CASE ch = "+" -> "PLUS"
    [] ch = "-" -> "MINUS"
    [] ch = "*" -> "MULTIPLY"
    [] ch = "/" -> "DIVIDE"
    [] ch = "%" -> "MODULO"
    [] ch = "=" -> "ASSIGN"
    [] ch = "<" -> "LESS"
    [] ch = ">" -> "GREATER"
    [] ch = "!" -> "NOT"
    [] ch = "(" -> "LPAREN"
    [] ch = ")" -> "RPAREN"
    [] ch = "{" -> "LBRACE"
    [] ch = "}" -> "RBRACE"
    [] ch = "[" -> "LBRACKET"
    [] ch = "]" -> "RBRACKET"
    [] ch = "." -> "DOT"
    [] ch = ";" -> "SEMICOLON"
    [] ch = "," -> "COMMA"
    [] ch = ":" -> "COLON"
    [] OTHER -> "none"

\* The two switches of tokenize at pos
OperatorAt(src, pos) ==
  IF TwoCharMember(src[pos] \o CharAt(src, pos + 1)) # "none"
  THEN LOk(Tok(TokenType(TwoCharMember(src[pos] \o CharAt(src, pos + 1))),
               src[pos] \o CharAt(src, pos + 1)),
           pos + 2)
  ELSE IF OneCharMember(src[pos]) # "none"
  THEN LOk(Tok(TokenType(OneCharMember(src[pos])), src[pos]), pos + 1)
  ELSE LErr

LexFailed == [ok |-> FALSE, tokens |-> <<>>]

RECURSIVE TokenizeFrom(_, _, _)

\* this.tokens.push(read...()); continue
PushToken(src, r, toks) ==
  IF ~r.ok THEN LexFailed ELSE TokenizeFrom(src, r.pos, Append(toks, r.tok))

\* skipMultiLineComment(); continue
AfterComment(src, pos, toks) ==
  IF pos = 0 THEN LexFailed ELSE TokenizeFrom(src, pos, toks)

\* One pass of the while of tokenize after skipWhitespace, and the push of
\* the end-of-input token after the loop
TokenizeAt(src, pos, toks) ==
  IF pos > Len(src) THEN [ok |-> TRUE, tokens |-> Append(toks, Tok(TokenType("EOF"), ""))]
  ELSE IF src[pos] = "/" /\ CharAt(src, pos + 1) = "/"
  THEN TokenizeFrom(src, skipSingleLineComment(src, pos), toks)
  ELSE IF src[pos] = "#" /\ CharAt(src, pos + 1) = "*"
  THEN AfterComment(src, skipMultiLineComment(src, pos), toks)
  ELSE IF src[pos] = "@" THEN PushToken(src, readDirective(src, pos), toks)
  ELSE IF src[pos] \in {"\"", "'"} THEN PushToken(src, readString(src, pos), toks)
  ELSE IF isDigit(src[pos]) THEN PushToken(src, readNumber(src, pos), toks)
  ELSE IF isAlpha(src[pos]) THEN PushToken(src, readIdentifier(src, pos), toks)
  ELSE PushToken(src, OperatorAt(src, pos), toks)

TokenizeFrom(src, pos, toks) == TokenizeAt(src, skipWhitespace(src, pos), toks)

\* Lexer.tokenize
tokenize(src) == TokenizeFrom(src, 1, <<>>)

-----------------------------------------------------------------------------
(* class Parser (src/src/parser.ts).  this.tokens is the sequence toks and *)
(* this.pos the 1-based position pos.  A parse function yields             *)
(* [ok, node, pos]: ok = FALSE when it throws the parser error, node what  *)
(* it returns, pos the position after it.  The lexemes of digits and       *)
(* string literals are sequences of characters, the other lexemes strings. *)
(* Of parseStatement the echo statement is modelled, and of parsePrimary   *)
(* the literals, the identifier, the call and the parenthesis; the token   *)
(* streams of the model hold no other statement or primary form.           *)

\* Parser.current
Cur(toks, pos) == IF pos <= Len(toks) THEN toks[pos] ELSE Tok("EOF", "")

\* Parser.check, for one of several types
Check(toks, pos, types) == Cur(toks, pos).type \in types

PErr == [ok |-> FALSE, node |-> NoNode, pos |-> 0]
POk(node, pos) == [ok |-> TRUE, node |-> node, pos |-> pos]

\* this.expect(type) after the parse r
Expect(toks, r, type) ==
  IF r.ok /\ Check(toks, r.pos, {type}) THEN [r EXCEPT !.pos = @ + 1] ELSE PErr

\* left = { type: "BinaryExpr", operator: op, left, right }, op the lexeme
\* at the position after left
BinaryNode(toks, left, right) ==
  IF ~right.ok THEN PErr
  ELSE POk(BinaryExpr(toks[left.pos].value, left.node, right.node), right.pos)

UnaryNode(op, operand) ==
  IF ~operand.ok THEN PErr ELSE POk(UnaryExpr(op, operand.node), operand.pos)

IndexNode(object, index) ==
  IF ~index.ok THEN PErr ELSE POk(IndexAccess(object.node, index.node), index.pos)

\* nodes.push(e)
Pushed(acc, e) ==
  IF ~e.ok THEN PErr ELSE POk(Append(acc.node, e.node), e.pos)

RECURSIVE parseExpression(_, _)
RECURSIVE ExpressionsLoop(_, _)
RECURSIVE PostfixLoop(_, _)
RECURSIVE parseUnary(_, _)
RECURSIVE parsePower(_, _)
RECURSIVE PowerLoop(_, _)
RECURSIVE MultiplicationLoop(_, _)
RECURSIVE AdditionLoop(_, _)
RECURSIVE ComparisonLoop(_, _)
RECURSIVE EqualityLoop(_, _)
RECURSIVE AndLoop(_, _)
RECURSIVE OrLoop(_, _)

\* while (this.match(TokenType.COMMA)) args.push(this.parseExpression())
ExpressionsLoop(toks, acc) ==
  IF acc.ok /\ Check(toks, acc.pos, {"COMMA"})
  THEN ExpressionsLoop(toks, Pushed(acc, parseExpression(toks, acc.pos + 1)))
  ELSE acc

\* The expressions up to the closing token: none when it is the next token.
parseExpressions(toks, pos, closing) ==
  IF Check(toks, pos, {closing}) THEN POk(<<>>, pos)
  ELSE ExpressionsLoop(toks, Pushed(POk(<<>>, pos), parseExpression(toks, pos)))

CallNode(name, args) ==
  IF ~args.ok THEN PErr ELSE POk(FunctionCall(name, args.node), args.pos)

\* Parser.parsePrimary
parsePrimary(toks, pos) ==
  CASE Check(toks, pos, {"INT_LITERAL"}) ->
         POk(NumberLiteral(ParseInt(toks[pos].value).n), pos + 1)
    [] Check(toks, pos, {"STRING_LITERAL"}) -> POk(StringLiteral(toks[pos].value), pos + 1)
    [] Check(toks, pos, {"BOOL_LITERAL"}) ->
         POk(BoolLiteral(toks[pos].value = "true"), pos + 1)
    [] Check(toks, pos, {"IDENTIFIER"}) ->
         IF Check(toks, pos + 1, {"LPAREN"})
         THEN CallNode(toks[pos].value,
                       Expect(toks, parseExpressions(toks, pos + 2, "RPAREN"), "RPAREN"))
         ELSE POk(Identifier(toks[pos].value), pos + 1)
    [] Check(toks, pos, {"LPAREN"}) ->
         Expect(toks, parseExpression(toks, pos + 1), "RPAREN")
    [] OTHER -> PErr

PostfixLoop(toks, node) ==
  IF node.ok /\ Check(toks, node.pos, {TokenType("LBRACKET")})
  THEN PostfixLoop(toks,
                   IndexNode(node, Expect(toks, parseExpression(toks, node.pos + 1),
                                          TokenType("RBRACKET"))))
  ELSE node

\* Parser.parsePostfix
parsePostfix(toks, pos) == PostfixLoop(toks, parsePrimary(toks, pos))

\* Parser.parseUnary
parseUnary(toks, pos) ==
  IF Check(toks, pos, {"MINUS", "NOT"})
  THEN UnaryNode(toks[pos].value, parseUnary(toks, pos + 1))
  ELSE parsePostfix(toks, pos)

PowerLoop(toks, left) ==
  IF left.ok /\ Check(toks, left.pos, {"POWER"})
  THEN PowerLoop(toks, BinaryNode(toks, left, parseUnary(toks, left.pos + 1)))
  ELSE left

parsePowerLeft(toks, pos) == PowerLoop(toks, parseUnary(toks, pos))

PowerRest(toks, left) ==
  IF left.ok /\ Check(toks, left.pos, {"POWER"})
  THEN BinaryNode(toks, left, parsePower(toks, left.pos + 1))
  ELSE left

\* Parser.parsePower
parsePower(toks, pos) == PowerRest(toks, parseUnary(toks, pos))

MultiplicationLoop(toks, left) ==
  IF left.ok /\ Check(toks, left.pos, {"MULTIPLY", "DIVIDE", "MODULO"})
  THEN MultiplicationLoop(toks, BinaryNode(toks, left, parsePower(toks, left.pos + 1)))
  ELSE left

\* Parser.parseMultiplication
parseMultiplication(toks, pos) == MultiplicationLoop(toks, parsePower(toks, pos))

AdditionLoop(toks, left) ==
  IF left.ok /\ Check(toks, left.pos, {"PLUS", "MINUS"})
  THEN AdditionLoop(toks, BinaryNode(toks, left, parseMultiplication(toks, left.pos + 1)))
  ELSE left

\* Parser.parseAddition
parseAddition(toks, pos) == AdditionLoop(toks, parseMultiplication(toks, pos))

ComparisonLoop(toks, left) ==
  IF left.ok /\ Check(toks, left.pos, {"LESS", "GREATER", "LESS_EQ", "GREATER_EQ"})
  THEN ComparisonLoop(toks, BinaryNode(toks, left, parseAddition(toks, left.pos + 1)))
  ELSE left

\* Parser.parseComparison
parseComparison(toks, pos) == ComparisonLoop(toks, parseAddition(toks, pos))

EqualityLoop(toks, left) ==
  IF left.ok /\ Check(toks, left.pos, {"EQUALS", "NOT_EQUALS"})
  THEN EqualityLoop(toks, BinaryNode(toks, left, parseComparison(toks, left.pos + 1)))
  ELSE left

\* Parser.parseEquality
parseEquality(toks, pos) == EqualityLoop(toks, parseComparison(toks, pos))

AndLoop(toks, left) ==
  IF left.ok /\ Check(toks, left.pos, {"AND"})
  THEN AndLoop(toks, BinaryNode(toks, left, parseEquality(toks, left.pos + 1)))
  ELSE left

\* Parser.parseAnd
parseAnd(toks, pos) == AndLoop(toks, parseEquality(toks, pos))

OrLoop(toks, left) ==
  IF left.ok /\ Check(toks, left.pos, {"OR"})
  THEN OrLoop(toks, BinaryNode(toks, left, parseAnd(toks, left.pos + 1)))
  ELSE left

\* Parser.parseOr
parseOr(toks, pos) == OrLoop(toks, parseAnd(toks, pos))

\* Parser.parseExpression
parseExpression(toks, pos) == parseOr(toks, pos)

EchoOfArgs(toks, args) ==
  IF ~args.ok THEN PErr
  ELSE Expect(toks, Expect(toks, POk(EchoNode(args.node), args.pos), "RPAREN"),
              "SEMICOLON")

\* Parser.parseEcho
parseEcho(toks, pos) ==
  IF Check(toks, pos, {"ECHO"}) /\ Check(toks, pos + 1, {"LPAREN"})
  THEN EchoOfArgs(toks, parseExpressions(toks, pos + 2, "RPAREN"))
  ELSE PErr

\* Parser.parseStatement
parseStatement(toks, pos) ==
  IF Check(toks, pos, {"ECHO"}) THEN parseEcho(toks, pos) ELSE PErr

RECURSIVE StatementsLoop(_, _)
\* while (!check(RBRACE) && !check(EOF)) statements.push(parseStatement())
StatementsLoop(toks, acc) ==
  IF acc.ok /\ ~Check(toks, acc.pos, {"RBRACE", "EOF"})
  THEN StatementsLoop(toks, Pushed(acc, parseStatement(toks, acc.pos)))
  ELSE acc

BlockOfStatements(toks, stmts) ==
  IF ~stmts.ok THEN PErr
  ELSE Expect(toks, POk(BlockNode(stmts.node), stmts.pos), "RBRACE")

\* Parser.parseBlock
parseBlock(toks, pos) ==
  IF Check(toks, pos, {"LBRACE"})
  THEN BlockOfStatements(toks, StatementsLoop(toks, POk(<<>>, pos + 1)))
  ELSE PErr

MainOfBlock(body) == IF ~body.ok THEN PErr ELSE POk(MainNode(body.node), body.pos)

\* Parser.parseMain
parseMain(toks, pos) ==
  IF /\ Check(toks, pos, {"MAIN"})
     /\ Check(toks, pos + 1, {"LPAREN"})
     /\ Check(toks, pos + 2, {"RPAREN"})
  THEN MainOfBlock(parseBlock(toks, pos + 3))
  ELSE PErr

\* Parser.parseTopLevel
parseTopLevel(toks, pos) ==
  IF Check(toks, pos, {"MAIN"}) THEN parseMain(toks, pos) ELSE PErr

RECURSIVE TopLevelLoop(_, _)
\* while (!check(VOID_END) && !check(EOF)) program.body.push(parseTopLevel())
TopLevelLoop(toks, acc) ==
  IF acc.ok /\ ~Check(toks, acc.pos, {"VOID_END", "EOF"})
  THEN TopLevelLoop(toks, Pushed(acc, parseTopLevel(toks, acc.pos)))
  ELSE acc

\* The end of Parser.parse: the optional `@VoidEnd ;`, then return program.
ProgramOfBody(toks, style, body) ==
  IF ~body.ok THEN PErr
  ELSE IF Check(toks, body.pos, {"VOID_END"})
  THEN Expect(toks, POk(ProgramNode(style, body.node), body.pos + 1), "SEMICOLON")
  ELSE POk(ProgramNode(style, body.node), body.pos)

\* Parser.parse from the position after the header and the style directive
ParseBody(toks, style, pos) ==
  ProgramOfBody(toks, style, TopLevelLoop(toks, POk(<<>>, pos)))

\* Parser.parse
parse(toks) ==
  IF ~(/\ Check(toks, 1, {"VOID_APP"})
       /\ Check(toks, 2, {"STRING_LITERAL"})
       /\ Check(toks, 3, {"SEMICOLON"}))
  THEN PErr
  ELSE IF Check(toks, 4, {"USING"})
  THEN IF /\ Check(toks, 5, {"STYLE"})
          /\ Check(toks, 6, {"STRING_LITERAL"})
          /\ Check(toks, 7, {"SEMICOLON"})
       THEN ParseBody(toks, TRUE, 8)
       ELSE PErr
  ELSE ParseBody(toks, FALSE, 4)

-----------------------------------------------------------------------------
(* Initial states.                                                         *)

\* The interpreter after construction, allowed `n` statements and blocks.
InitInterp(n) ==
  /\ status = "init"
  /\ scopes = <<NewEnvironment>>
  /\ heap = <<>>
  /\ out = <<>>
  /\ steps = n
  /\ last = [op |-> "none", ok |-> TRUE]
  /\ failed = FALSE
  /\ declared = <<{}>>
  /\ ended = {}
  /\ alias = NoAlias
  /\ added = NoAdded

InterpIdle == InitInterp(0)

LoopIdle ==
  /\ loopKind = "none"
  /\ loopPc = "exit"
  /\ iterations = 0
  /\ bodyRuns = 0

ConvIdle ==
  /\ convPc = "arg"
  /\ convArg = VNull
  /\ convStr = VNull
  /\ convRes = VNull

FnIdle ==
  /\ fnPc = "idle"
  /\ fnArgs = <<>>
  /\ fnRes = <<>>
  /\ control = <<>>

-----------------------------------------------------------------------------
(* Spec: programs over list and dict variables.  main() holds up to        *)
(* MaxSteps - 1 statements drawn from the menus below.                     *)

\* Number of blocks and statements of a program of Spec.
MaxSteps == 6

ListOfOne == ListLiteral(<<NumberLiteral(1)>>)
EmptyDict == DictLiteral(<<>>)

CreateMenu ==
  {CreateVarNode(ty, n, e) :
     ty \in {"list", "dict"}, n \in Names,
     e \in {ListOfOne, EmptyDict, Identifier("a")}}

AssignMenu ==
  {AssignVarNode(n, e) :
     n \in Names, e \in {Identifier("a"), Identifier("b"), NumberLiteral(1)}}

MethodMenu ==
  {MethodCallNode(n, "add", "list", <<NumberLiteral(2)>>) : n \in Names}
  \cup {MethodCallNode(n, "delete", "list", <<NumberLiteral(0)>>) : n \in Names}
  \cup {MethodCallNode(n, "clear", "list", <<>>) : n \in Names}
  \cup {MethodCallNode(n, "add", "dict", <<NumberLiteral(1), NumberLiteral(0)>>) :
          n \in Names}
  \cup {MethodCallNode(n, "clear", "dict", <<>>) : n \in Names}

Init ==
  /\ InitInterp(MaxSteps)
  /\ LoopIdle
  /\ ConvIdle
  /\ FnIdle

Next ==
  \/ ExecuteStart
  \/ EnterBlock(2)
  \/ ExitBlock
  \/ ExecuteFinish
  \/ \E node \in CreateMenu : CreateVar(node)
  \/ \E node \in AssignMenu : AssignVar(node)
  \/ \E n \in Names : IndexAssign(n, NumberLiteral(0), NumberLiteral(2))
  \/ \E node \in MethodMenu : MethodCall(node)

Spec == Init /\ [][Next]_vars

\* The value bound to `name`, as an expression reads it.
ValueOf(name) == EnvGet(scopes, name).variable.value

\* C1: for a list variable L and a valid index i, the statement `L[i] = v;`
\* succeeds and afterwards `L[i] == v` evaluates to true.
IndexRoundTrip ==
  (last.op = "IndexAssign" /\ last.valid) =>
    /\ last.ok
    /\ executeNode(BinaryExpr("==", IndexAccess(Identifier(last.name), last.index),
                              last.value),
                   scopes, heap) = Value(VBool(TRUE), heap)

\* C2: in every reachable state a binding declared list holds a list and a
\* binding declared dict holds a dict.
TypedBindingsKeepShape ==
  \A i \in 1..Len(scopes) : \A n \in Names :
    /\ scopes[i][n].type = "list" => IsArray(scopes[i][n].value, heap)
    /\ scopes[i][n].type = "dict" => isVoidDict(scopes[i][n].value, heap)

\* C5: once `b = a;` or `create:list b = a;` (or the dict forms) has bound b
\* to the container of a, both names hold the same container, and what is read
\* through one name (its printed form, its length) is what is read through
\* the other, whatever add/delete/clear ran since through either name.
AliasesShareContainer ==
  alias.set =>
    /\ ValueOf(alias.a).t = "ref"
    /\ ValueOf(alias.b).t = "ref"
    /\ stringify(ValueOf(alias.a), heap) = stringify(ValueOf(alias.b), heap)
    /\ FunctionValue("length", <<ValueOf(alias.a)>>, heap)
         = FunctionValue("length", <<ValueOf(alias.b)>>, heap)

\* b was bound to the list of a, then an element was added through a, and the
\* list read through b shows it.
AliasesShareContainerWitness ==
  /\ alias.set
  /\ last.op = "MethodCall"
  /\ last.ok
  /\ last.node.method = "add"
  /\ last.node.object = alias.a
  /\ stringify(ValueOf(alias.b), heap) = <<"[", "1", ",", " ", "2", "]">>

\* C11: `create:<type> n = e;` in a scope that already holds n aborts the run
\* and leaves the binding of n in that scope as it was: its declared type,
\* its value (for a list or dict the same container) and what the value prints.
RedefinitionRejected ==
  (last.op = "CreateVar" /\ last.before.had) =>
    /\ ~last.ok
    /\ status = "error"
    /\ scopes[Len(scopes)][last.node.name] = last.before.variable
    /\ stringify(scopes[Len(scopes)][last.node.name].value, heap) = last.before.text

\* b holds the list of a, and a second `create:list b = a;` has aborted.
RedefinitionRejectedWitness ==
  /\ last.op = "CreateVar"
  /\ last.before.had
  /\ ~last.ok
  /\ alias.set
  /\ last.node.name = alias.b
  /\ last.node.value = Identifier(alias.a)
  /\ last.node.varType = "list"
  /\ IsArray(ValueOf(alias.b), heap)

-----------------------------------------------------------------------------
(* SpecDict: programs over one dict variable: main() creates it from a     *)
(* literal and applies add:dict, delete:dict and clear:dict with keys of   *)
(* three types.                                                            *)

\* Number of blocks and statements of a program of SpecDict.
MaxDictSteps == 6

One == <<"1">>

DictKeys == {NumberLiteral(1), StringLiteral(One), BoolLiteral(TRUE)}

TwoKeyDict ==
  DictLiteral(<<Entry(NumberLiteral(1), NumberLiteral(0)),
                Entry(StringLiteral(One), NumberLiteral(0))>>)

DictCreateMenu == {CreateVarNode("dict", "a", e) : e \in {EmptyDict, TwoKeyDict}}

DictMethodMenu ==
  {MethodCallNode("a", "add", "dict", <<k, NumberLiteral(v)>>) :
     k \in DictKeys, v \in {0, 9}}
  \cup {MethodCallNode("a", "delete", "dict", <<NumberLiteral(1)>>),
        MethodCallNode("a", "clear", "dict", <<>>)}

InitDict ==
  /\ InitInterp(MaxDictSteps)
  /\ LoopIdle
  /\ ConvIdle
  /\ FnIdle

NextDict ==
  \/ ExecuteStart
  \/ EnterBlock(2)
  \/ ExitBlock
  \/ ExecuteFinish
  \/ \E node \in DictCreateMenu : CreateVar(node)
  \/ \E node \in DictMethodMenu : MethodCall(node)

SpecDict == InitDict /\ [][NextDict]_vars

\* C3: in every dict of the heap no two keys are equal under the equality
\* rule of `==` (areEqual).
DictKeysUnique ==
  \A d \in 1..Len(heap) :
    heap[d].kind = "dict" =>
      \A i, j \in 1..Len(heap[d].keys) :
        i # j => ~areEqual(heap[d].keys[i], heap[d].keys[j], heap)

\* The number of distinct keys among `keys`: the size of the largest choice
\* of keys no two of which are equal under areEqual.
DistinctCount(keys, h) ==
  LET Distinct == {S \in SUBSET (1..Len(keys)) :
                     \A i, j \in S : i # j => ~areEqual(keys[i], keys[j], h)}
  IN CHOOSE m \in 0..Len(keys) :
       /\ \E S \in Distinct : Cardinality(S) = m
       /\ \A S \in Distinct : Cardinality(S) <= m

\* C4: for a dict that started empty and has only been changed by add:dict
\* calls, length(d) is the number of distinct keys passed to those calls.
LengthIsDistinctKeys ==
  added.on =>
    FunctionValue("length", <<VRef(added.addr)>>, heap)
      = Value(VNum(DistinctCount(added.keys, heap)), heap)

\* The value of a literal.
LiteralValue(node) ==
  CASE node.type = "NumberLiteral" -> VNum(node.value)
    [] node.type = "StringLiteral" -> VStr(node.value)
    [] node.type = "BoolLiteral" -> VBool(node.value)

\* The positions of the keys of the dict at address d that are equal to k.
KeyHits(d, k) ==
  {i \in 1..Len(heap[d].keys) : areEqual(heap[d].keys[i], k, heap)}

\* The step has replaced the value of one key equal to k by v, keeping the
\* keys and the other values of the dict at d, or, when no key is equal to k,
\* has appended (k, v) to it.
ReplacedOrAppended(d, k, v) ==
  IF KeyHits(d, k) # {}
  THEN /\ heap'[d].keys = heap[d].keys
       /\ \E j \in KeyHits(d, k) : heap'[d].values = [heap[d].values EXCEPT ![j] = v]
  ELSE /\ heap'[d].keys = Append(heap[d].keys, k)
       /\ heap'[d].values = Append(heap[d].values, v)

\* C15: a step that executes `x.add:dict(k:v)` replaces only the value of a
\* key equal to k, keeping the number, the keys and the order of the entries,
\* or appends (k, v) as the last entry when no key is equal to k.
AddDictReplacesOrAppends ==
  [][(/\ last'.op = "MethodCall"
      /\ last'.ok
      /\ last'.node.method = "add"
      /\ last'.node.collectionType = "dict") =>
       ReplacedOrAppended(ValueOf(last'.node.object).n,
                          LiteralValue(last'.node.args[1]),
                          LiteralValue(last'.node.args[2]))]_vars

\* add:dict(1:9) on the dict with the keys "1" and true has replaced the
\* value of "1", the first key equal to 1, and kept both keys.
AddDictReplacesOrAppendsWitness ==
  /\ last.op = "MethodCall"
  /\ last.ok
  /\ last.node.method = "add"
  /\ last.node.args = <<NumberLiteral(1), NumberLiteral(9)>>
  /\ heap[ValueOf("a").n].keys = <<VStr(One), VBool(TRUE)>>
  /\ heap[ValueOf("a").n].values = <<VNum(9), VNum(0)>>

-----------------------------------------------------------------------------
(* SpecScope: programs over int variables in nested blocks.  A program is  *)
(* a sequence of main() blocks; a block inside a block is the branch of an *)
(* if statement whose condition holds.                                     *)

\* Number of blocks and statements of a program of SpecScope.
MaxScopeSteps == 7

\* Deepest Environment chain: globalEnv, main's block, one nested block.
MaxDepth == 3

OneByZero == BinaryExpr("/", NumberLiteral(1), NumberLiteral(0))

ScopeCreateMenu ==
  {CreateVarNode("int", n, e) : n \in Names, e \in {NumberLiteral(1), OneByZero}}

ScopeAssignMenu == {AssignVarNode(n, NumberLiteral(2)) : n \in Names}

ScopeEchoMenu == {EchoNode(<<Identifier(n)>>) : n \in Names}

InitScope ==
  /\ InitInterp(MaxScopeSteps)
  /\ LoopIdle
  /\ ConvIdle
  /\ FnIdle

NextScope ==
  \/ ExecuteStart
  \/ EnterBlock(MaxDepth)
  \/ ExitBlock
  \/ ExecuteFinish
  \/ \E node \in ScopeCreateMenu : CreateVar(node)
  \/ \E node \in ScopeAssignMenu : AssignVar(node)
  \/ \E node \in ScopeEchoMenu : Echo(node)

SpecScope == InitScope /\ [][NextScope]_vars

\* The name the latest statement read (echo) or assigned.
UsedName ==
  IF last.op = "Echo" THEN last.node.expressions[1].name ELSE last.node.name

\* No block that is still open has created `name`.
NoOpenBlockDefines(name) == \A i \in 1..Len(declared) : name \notin declared[i]

\* C6: a statement that reads or assigns a name created in a block that has
\* ended aborts, unless a block still open has created the same name.
ScopeDiscipline ==
  (/\ last.op \in {"Echo", "AssignVar"}
   /\ UsedName \in ended
   /\ NoOpenBlockDefines(UsedName)) => ~last.ok

\* echo of a name whose block has ended has aborted the run.
ScopeDisciplineWitness ==
  /\ last.op = "Echo"
  /\ UsedName \in ended
  /\ NoOpenBlockDefines(UsedName)
  /\ ~last.ok
  /\ status = "error"

\* The scopes of the chain that hold a binding of `name`.
Holders(name) == {i \in 1..Len(scopes) : scopes[i][name].type # "none"}

\* The nearest scope of the chain that holds a binding of `name`.
Nearest(name) == CHOOSE i \in Holders(name) : \A j \in Holders(name) : j <= i

\* The step of `n = e;` leaves alone every binding but the one of n in scope i.
OnlyChanges(i, n) ==
  /\ Len(scopes') = Len(scopes)
  /\ \A j \in 1..Len(scopes) : \A m \in Names :
       (j # i \/ m # n) => scopes'[j][m] = scopes[j][m]
  /\ scopes'[i][n].type = scopes[i][n].type

\* C12: a step that executes `n = e;` changes at most the binding of n in the
\* nearest scope of the chain that holds n, and stores the value there when
\* it succeeds; when no scope holds n, or the statement aborts, no binding
\* changes.
AssignChangesNearestOnly ==
  [][last'.op = "AssignVar" =>
       IF Holders(last'.node.name) = {}
       THEN ~last'.ok /\ scopes' = scopes
       ELSE /\ OnlyChanges(Nearest(last'.node.name), last'.node.name)
            /\ ~last'.ok => scopes' = scopes
            /\ last'.ok =>
                 scopes'[Nearest(last'.node.name)][last'.node.name].value
                   = VNum(last'.node.value.value)]_vars

\* `a = 2;` has run in a nested block that created its own a: the a of the
\* nested block holds 2, the shadowed a of main still holds 1.
AssignChangesNearestOnlyWitness ==
  /\ last.op = "AssignVar"
  /\ last.ok
  /\ last.node.name = "a"
  /\ Len(scopes) = 3
  /\ scopes[3]["a"] = [type |-> "int", value |-> VNum(2)]
  /\ scopes[2]["a"] = [type |-> "int", value |-> VNum(1)]

HasLine(kind) == \E i \in 1..Len(out) : out[i].kind = kind

\* C10: the footer is written exactly when all top-level forms have completed
\* without an error, and then it is the last line; once a statement has
\* thrown, the run has stopped with the header written and no footer.
FooterIffCompleted ==
  /\ HasLine("footer") <=> status = "done"
  /\ status = "done" => ~failed /\ out[Len(out)].kind = "footer"
  /\ failed => /\ status = "error"
               /\ out[1].kind = "header"
               /\ ~HasLine("footer")

\* `create:int a = 1/0;` has aborted the run after the header.
FooterIffCompletedWitness ==
  /\ last.op = "CreateVar"
  /\ last.node.value = OneByZero
  /\ ~last.ok
  /\ status = "error"
  /\ out[1].kind = "header"
  /\ ~HasLine("footer")

-----------------------------------------------------------------------------
(* SpecScalar: programs over one variable of a scalar type, created and    *)
(* assigned from values of every type.                                     *)

\* Number of blocks and statements of a program of SpecScalar.
MaxScalarSteps == 4

OneAndHalf == FloatLiteral(1, <<"5">>)

ScalarValues ==
  {NumberLiteral(2), OneAndHalf, UnaryExpr("-", OneAndHalf), BoolLiteral(TRUE),
   StringLiteral(<<"1", "2">>), StringLiteral(<<"1", ".", "5">>),
   StringLiteral(<<"x">>), StringLiteral(<<>>), StringLiteral(InfinityText),
   ListOfOne, EmptyDict}

ScalarCreateMenu ==
  {CreateVarNode(ty, "a", e) :
     ty \in {"string", "bool", "int", "float"}, e \in ScalarValues}

ScalarAssignMenu == {AssignVarNode("a", e) : e \in ScalarValues}

InitScalar ==
  /\ InitInterp(MaxScalarSteps)
  /\ LoopIdle
  /\ ConvIdle
  /\ FnIdle

NextScalar ==
  \/ ExecuteStart
  \/ EnterBlock(2)
  \/ ExitBlock
  \/ ExecuteFinish
  \/ \E node \in ScalarCreateMenu : CreateVar(node)
  \/ \E node \in ScalarAssignMenu : AssignVar(node)

SpecScalar == InitScalar /\ [][NextScalar]_vars

\* C13: in every reachable state a binding declared string holds a string,
\* one declared bool a bool, one declared int a whole number and one
\* declared float a number.
ScalarBindingsKeepType ==
  \A i \in 1..Len(scopes) : \A n \in Names :
    /\ scopes[i][n].type = "string" => scopes[i][n].value.t = "string"
    /\ scopes[i][n].type = "bool" => scopes[i][n].value.t = "bool"
    /\ scopes[i][n].type = "int" =>
         scopes[i][n].value.t = "number" /\ scopes[i][n].value.s = <<>>
    /\ scopes[i][n].type = "float" => scopes[i][n].value.t = "number"

\* C13 (amended): in every reachable state a binding declared string holds a
\* string, one declared bool a bool, one declared float a number, and one
\* declared int a number that is whole or infinite (no fraction).
ScalarBindingsKeepTypeOrInfinite ==
  \A i \in 1..Len(scopes) : \A n \in Names :
    /\ scopes[i][n].type = "string" => scopes[i][n].value.t = "string"
    /\ scopes[i][n].type = "bool" => scopes[i][n].value.t = "bool"
    /\ scopes[i][n].type = "int" =>
         scopes[i][n].value.t = "number" /\ scopes[i][n].value.s \in {<<>>, Inf}
    /\ scopes[i][n].type = "float" => scopes[i][n].value.t = "number"

\* `a = -1.5;` on the int variable a has stored -2, the floor of -1.5.
ScalarBindingsKeepTypeOrInfiniteWitness ==
  /\ last.op = "AssignVar"
  /\ last.ok
  /\ last.node.value = UnaryExpr("-", OneAndHalf)
  /\ Len(scopes) = 2
  /\ scopes[2]["a"] = [type |-> "int", value |-> VNum(0 - 2)]

-----------------------------------------------------------------------------
(* SpecLoop: one execution of a while or for statement whose condition is  *)
(* an input of each evaluation.  A step is one pass of the loop: the       *)
(* condition, the body, the update, iterations++ and the ceiling check.    *)

\* The passes enumerated one by one: the first LoopWindow of a loop, and the
\* last LoopWindow below the ceiling.
LoopWindow == 40

\* The loop statement starts (let iterations = 0), or is found after a number
\* of passes close to the ceiling; every pass leaves bodyRuns = iterations.
InitLoop ==
  /\ InterpIdle
  /\ ConvIdle
  /\ FnIdle
  /\ loopKind \in {"while", "for"}
  /\ \/ loopPc = "start" /\ iterations = 0
     \/ loopPc = "run" /\ iterations \in (MAX_ITERATIONS - LoopWindow)..MAX_ITERATIONS
  /\ bodyRuns = iterations

\* executeWhile / executeFor up to the first evaluation of the condition
\* (executeFor: forEnv is created and node.init executed).
LoopStart ==
  /\ loopPc = "start"
  /\ loopPc' = "run"
  /\ UNCHANGED <<loopKind, iterations, bodyRuns, interpVars, convVars, fnVars, control>>

\* The condition is truthy: the body is executed (executeFor: then
\* node.update), iterations is incremented and compared with the ceiling.
LoopPass ==
  /\ loopPc = "run"
  /\ iterations < LoopWindow \/ iterations >= MAX_ITERATIONS - LoopWindow
  /\ iterations < MAX_ITERATIONS + LoopWindow
  /\ bodyRuns' = bodyRuns + 1
  /\ iterations' = iterations + 1
  /\ loopPc' = IF Exceeds(iterations + 1) THEN "error" ELSE "run"
  /\ UNCHANGED <<loopKind, interpVars, convVars, fnVars, control>>

\* The condition is falsy: the statement returns null.
LoopExit ==
  /\ loopPc = "run"
  /\ loopPc' = "exit"
  /\ UNCHANGED <<loopKind, iterations, bodyRuns, interpVars, convVars, fnVars, control>>

NextLoop == LoopStart \/ LoopPass \/ LoopExit

SpecLoop == InitLoop /\ [][NextLoop]_vars

\* C9: the body of a loop is never executed more than MAX_ITERATIONS times.
BodyRunsAtMostCeiling == bodyRuns <= MAX_ITERATIONS

\* C9 (amended): the body of a loop is never executed more than
\* MAX_ITERATIONS + 1 times; the run aborts right after execution
\* MAX_ITERATIONS + 1 of the body, so a loop that returns has executed its
\* body at most MAX_ITERATIONS times.
BodyRunsAtMostCeilingPlusOne ==
  /\ bodyRuns <= MAX_ITERATIONS + 1
  /\ bodyRuns = MAX_ITERATIONS + 1 <=> loopPc = "error"
  /\ loopPc \in {"run", "exit"} => bodyRuns <= MAX_ITERATIONS

\* The body has run MAX_ITERATIONS + 1 times and the loop has aborted.
BodyRunsAtMostCeilingPlusOneWitness ==
  /\ loopPc = "error"
  /\ iterations = MAX_ITERATIONS + 1
  /\ bodyRuns = MAX_ITERATIONS + 1

-----------------------------------------------------------------------------
(* SpecEq: one call of areEqual for each pair among three runtime values,  *)
(* in an interpreter whose heap holds two empty lists and an empty dict.   *)

EqHeap == <<NewArray(<<>>), NewArray(<<>>), createVoidDict>>

EqValues ==
  {VBool(TRUE), VBool(FALSE), VNum(0), VNum(1), VStr(<<"1">>), VStr(<<"0">>),
   VStr(<<"t", "r", "u", "e">>), VStr(<<>>), VStr(<<"[", "]">>),
   VRef(1), VRef(2), VRef(3)}

InitEq ==
  /\ status = "running"
  /\ scopes = <<NewEnvironment>>
  /\ heap = EqHeap
  /\ out = <<Line("header", <<>>), Line("blank", <<>>)>>
  /\ steps = 0
  /\ last = [op |-> "none", ok |-> TRUE]
  /\ failed = FALSE
  /\ declared = <<{}>>
  /\ ended = {}
  /\ alias = NoAlias
  /\ added = NoAdded
  /\ LoopIdle
  /\ ConvIdle
  /\ fnPc = "args"
  /\ fnArgs \in EqValues \X EqValues \X EqValues
  /\ fnRes = <<>>
  /\ control = <<>>

\* this.areEqual(x, y) for the pairs of the three values x, y, z
CallAreEqual ==
  /\ fnPc = "args"
  /\ fnRes' = [xx |-> areEqual(fnArgs[1], fnArgs[1], heap),
               xy |-> areEqual(fnArgs[1], fnArgs[2], heap),
               yx |-> areEqual(fnArgs[2], fnArgs[1], heap),
               yz |-> areEqual(fnArgs[2], fnArgs[3], heap),
               xz |-> areEqual(fnArgs[1], fnArgs[3], heap)]
  /\ fnPc' = "done"
  /\ UNCHANGED <<fnArgs, interpVars, loopVars, convVars, control>>

NextEq == CallAreEqual

SpecEq == InitEq /\ [][NextEq]_vars

\* C14: the equality of `==` is reflexive, symmetric and transitive.
EqualityIsEquivalence ==
  fnPc = "done" =>
    /\ fnRes.xx
    /\ fnRes.xy <=> fnRes.yx
    /\ (fnRes.xy /\ fnRes.yz) => fnRes.xz

-----------------------------------------------------------------------------
(* SpecRun: whole programs, each run by one call of Interpreter.execute.   *)

\* The program `@VoidApp "..."; main() { stmts }`
Main(stmts) == ProgramNode(FALSE, <<MainNode(BlockNode(stmts))>>)

Str(c) == StringLiteral(<<c>>)

\* create:dict a = {"a":v1}; a.add:dict(k2:2); a.add:dict(k3:v3);
\* echo(a); echo(a["a"]);
DictScenario(v1, k2, k3, v3) ==
  Main(<<CreateVarNode("dict", "a", DictLiteral(<<Entry(Str("a"), NumberLiteral(v1))>>)),
         MethodCallNode("a", "add", "dict", <<Str(k2), NumberLiteral(2)>>),
         MethodCallNode("a", "add", "dict", <<Str(k3), NumberLiteral(v3)>>),
         EchoNode(<<Identifier("a")>>),
         EchoNode(<<IndexAccess(Identifier("a"), Str("a"))>>)>>)

DictScenarios ==
  {DictScenario(v1, k2, k3, v3) :
     v1 \in {1, 9}, k2 \in {"a", "b"}, k3 \in {"a", "b"}, v3 \in {1, 9}}

\* Operands of && and ||: truthy and falsy values of every type, one that
\* throws (1 / 0) and one that is not defined.
LogicOperands ==
  {BoolLiteral(TRUE), BoolLiteral(FALSE), NumberLiteral(0), NumberLiteral(2),
   StringLiteral(<<>>), Str("x"), ListLiteral(<<>>), ListOfOne,
   OneByZero, Identifier("b")}

\* echo(l op r);
LogicProgram(op, l, r) == Main(<<EchoNode(<<BinaryExpr(op, l, r)>>)>>)

LogicPrograms ==
  {LogicProgram(op, l, r) : op \in {"&&", "||"}, l \in LogicOperands,
                            r \in LogicOperands}

\* Number of passes of the loops of the programs below: 0..MaxPasses.
MaxPasses == 3

Less(l, r) == BinaryExpr("<", l, r)
Increment(name) ==
  AssignVarNode(name, BinaryExpr("+", Identifier(name), NumberLiteral(1)))
CreateInt(name, e) == CreateVarNode("int", name, e)

\* create:int b = a; echo(b);
CreatingBody == <<CreateInt("b", Identifier("a")), EchoNode(<<Identifier("b")>>)>>

\* if (0 < a) { echo(b); } create:int b = a;   From the second pass on it
\* reads the b of the pass before.
PeekingBody ==
  <<IfNode(Less(NumberLiteral(0), Identifier("a")),
           BlockNode(<<EchoNode(<<Identifier("b")>>)>>), NoNode),
    CreateInt("b", Identifier("a"))>>

\* create:int a = 0; while (a < n) { body; a = a + 1; }
WhileProgram(n, body) ==
  Main(<<CreateInt("a", NumberLiteral(0)),
         WhileNode(Less(Identifier("a"), NumberLiteral(n)),
                   BlockNode(body \o <<Increment("a")>>))>>)

\* for (create:int a = 0; a < n; a = a + 1) { body }
ForProgram(n, body) ==
  Main(<<ForNode(CreateInt("a", NumberLiteral(0)),
                 Less(Identifier("a"), NumberLiteral(n)), Increment("a"),
                 BlockNode(body))>>)

LoopPrograms ==
  UNION {{WhileProgram(n, CreatingBody), WhileProgram(n, PeekingBody),
          ForProgram(n, CreatingBody), ForProgram(n, PeekingBody)} :
         n \in 0..MaxPasses}

EchoName(name) == EchoNode(<<Identifier(name)>>)

\* for (create:int a = 0; a < n; a = a + 1) { echo(a); } echo(a);
ForAndAfter(n) ==
  <<ForNode(CreateInt("a", NumberLiteral(0)),
            Less(Identifier("a"), NumberLiteral(n)), Increment("a"),
            BlockNode(<<EchoName("a")>>)),
    EchoName("a")>>

\* The for statement alone in main, and after `create:int a = 7;`.
ForAlone(n) == Main(ForAndAfter(n))
ForShadowing(n) == Main(<<CreateInt("a", NumberLiteral(7))>> \o ForAndAfter(n))

ForScopePrograms == UNION {{ForAlone(n), ForShadowing(n)} : n \in 0..MaxPasses}

MaxIndexLen == 3

\* The elements of the indexed lists and the characters of the indexed
\* strings, of which the first n are taken.
ListElements == <<5, 6, 7, 8, 9>>
StringElements == <<"v", "w", "x", "y", "z">>

IndexedList(n) == ListLiteral([p \in 1..n |-> NumberLiteral(ListElements[p])])
IndexedString(n) == StringLiteral(SubSeq(StringElements, 1, n))

\* The literal i, -k written as the unary minus of k
IntExpr(i) == IF i < 0 THEN UnaryExpr("-", NumberLiteral(0 - i)) ELSE NumberLiteral(i)

\* echo(obj[i]);
IndexProgram(obj, i) == Main(<<EchoNode(<<IndexAccess(obj, IntExpr(i))>>)>>)

Indexes == (0 - MaxIndexLen - 1)..(MaxIndexLen + 1)

IndexPrograms ==
  UNION {{IndexProgram(IndexedList(n), i), IndexProgram(IndexedString(n), i)} :
         n \in 0..MaxIndexLen, i \in Indexes}

\* Statements that throw: a division by zero, an assignment to and a read
\* of a name no scope holds, a method call on such a name.
ThrowingStatements ==
  {CreateInt("a", OneByZero), AssignVarNode("b", NumberLiteral(1)), EchoName("b"),
   MethodCallNode("b", "add", "list", <<NumberLiteral(1)>>)}

\* echo(1); stmt; echo(2); create:int a = 3;
AbortProgram(stmt) ==
  Main(<<EchoNode(<<NumberLiteral(1)>>), stmt, EchoNode(<<NumberLiteral(2)>>),
         CreateInt("a", NumberLiteral(3))>>)

AbortPrograms == {AbortProgram(stmt) : stmt \in ThrowingStatements}

Programs ==
  DictScenarios \cup LogicPrograms \cup LoopPrograms \cup ForScopePrograms
    \cup IndexPrograms \cup AbortPrograms

InitRun ==
  /\ InterpIdle
  /\ LoopIdle
  /\ ConvIdle
  /\ fnPc = "args"
  /\ fnArgs \in {<<p>> : p \in Programs}
  /\ fnRes = <<>>
  /\ control = <<>>

NextRun ==
  \/ RunExecute
  \/ RunEcho
  \/ RunCreateVar
  \/ RunAssignVar
  \/ RunMethodCall
  \/ RunBlock
  \/ RunBlockEnd
  \/ RunIf
  \/ RunWhile
  \/ RunWhileTest
  \/ RunFor
  \/ RunForTest
  \/ RunForUpdate
  \/ RunLoopAfter
  \/ RunFinish

SpecRun == InitRun /\ [][NextRun]_vars

\* The texts of the lines echo wrote, in order.
EchoTexts ==
  LET lines == SelectSeq(out, LAMBDA l : l.kind = "echo")
  IN [i \in 1..Len(lines) |-> lines[i].text]

\* The run of prog has ended, with the footer or with an error.
Ran(prog) == status \in {"done", "error"} /\ fnArgs = <<prog>>

\* C16: after `create:dict D = {"a":1}; D.add:dict("b":2); D.add:dict("a":9);`
\* echo(D) emits `{a:9, b:2}` (the value of "a" replaced in place) and
\* echo(D["a"]) emits `9`.
DictScenarioEchoesReplaced ==
  Ran(DictScenario(1, "b", "a", 9)) =>
    /\ status = "done"
    /\ EchoTexts = <<<<"{", "a", ":", "9", ",", " ", "b", ":", "2", "}">>, <<"9">>>>

DictScenarioEchoesReplacedWitness ==
  /\ Ran(DictScenario(1, "b", "a", 9))
  /\ Len(EchoTexts) = 2

\* C16 as stated: echo(D) emits `{a:1, b:2}` and echo(D["a"]) emits `9`.
DictScenarioEchoesOriginal ==
  Ran(DictScenario(1, "b", "a", 9)) =>
    EchoTexts = <<<<"{", "a", ":", "1", ",", " ", "b", ":", "2", "}">>, <<"9">>>>

\* The lines 0, 1, ..., n - 1
Counted(n) == [i \in 1..n |-> NatToString(i - 1)]

\* The run of a loop of n passes whose body creates b has completed with
\* one line per pass; the run of one whose body reads the b of the pass
\* before has thrown in the second pass, if there is one.
LoopOutcome(n, creating, peeking) ==
  /\ Ran(creating) => status = "done" /\ EchoTexts = Counted(n)
  /\ Ran(peeking) => EchoTexts = <<>> /\ (status = "error" <=> n >= 2)

\* C20: every execution of a block starts with a new empty scope, each pass
\* of a while or for body included: a create: in a loop body does not fail
\* as a redefinition in a later pass, and a name created in one pass is not
\* resolvable in the next.
BlocksStartFresh ==
  /\ last.op = "Block" => scopes[Len(scopes)] = NewEnvironment
  /\ \A n \in 0..MaxPasses :
       /\ LoopOutcome(n, WhileProgram(n, CreatingBody), WhileProgram(n, PeekingBody))
       /\ LoopOutcome(n, ForProgram(n, CreatingBody), ForProgram(n, PeekingBody))

\* The while loop whose body creates b has made MaxPasses passes.
BlocksStartFreshWitness ==
  /\ Ran(WhileProgram(MaxPasses, CreatingBody))
  /\ Len(EchoTexts) = MaxPasses

\* The scopes in which the statements of main() run.
MainScopes == BlockEnv(<<NewEnvironment>>)

BoolText(b) == stringify(VBool(b), <<>>)

\* The run of `echo(l op r);` has thrown when l or r throws, and has
\* otherwise echoed the bool truthy(lv) op truthy(rv), for the outcomes lv of
\* l and rv of r evaluated after l.
LogicOutcome(op, lv, rv) ==
  IF lv.ok /\ rv.ok
  THEN /\ status = "done"
       /\ EchoTexts = <<BoolText(IF op = "&&"
                                 THEN isTruthy(lv.v, rv.heap) /\ isTruthy(rv.v, rv.heap)
                                 ELSE isTruthy(lv.v, rv.heap) \/ isTruthy(rv.v, rv.heap))>>
  ELSE /\ status = "error"
       /\ EchoTexts = <<>>

\* C19: `l && r` and `l || r` evaluate l and then r whatever the truthiness
\* of l: an error raised by r ends the run even when l alone decides the
\* result, and the result is the bool truthy(l) op truthy(r).
LogicEvaluatesBoth ==
  \A op \in {"&&", "||"}, l \in LogicOperands, r \in LogicOperands :
    Ran(LogicProgram(op, l, r)) =>
      LogicOutcome(op, executeNode(l, MainScopes, <<>>),
                   executeNode(r, MainScopes, executeNode(l, MainScopes, <<>>).heap))

\* `echo(false && 1 / 0);` has thrown.
LogicEvaluatesBothWitness ==
  /\ Ran(LogicProgram("&&", BoolLiteral(FALSE), OneByZero))
  /\ status = "error"

\* The run of `echo(obj[i]);` has echoed the line `text` when position p is
\* one of the n positions of obj, and has thrown otherwise.
IndexOutcome(prog, n, p, text) ==
  Ran(prog) =>
    IF p \in 0..(n - 1)
    THEN status = "done" /\ EchoTexts = <<text>>
    ELSE status = "error" /\ EchoTexts = <<>>

\* The position the index i stands for: i itself, n + i when i is negative.
Position(n, i) == IF i < 0 THEN n + i ELSE i

\* C24: obj[i] on a list or a string of length n yields the element at
\* position i when 0 <= i < n, the one at n + i when -n <= i < 0, and
\* throws for every other whole i.
IndexAccessInRange ==
  \A n \in 0..MaxIndexLen, i \in Indexes :
    /\ IndexOutcome(IndexProgram(IndexedList(n), i), n, Position(n, i),
                    NatToString(ListElements[Position(n, i) + 1]))
    /\ IndexOutcome(IndexProgram(IndexedString(n), i), n, Position(n, i),
                    <<StringElements[Position(n, i) + 1]>>)

\* echo("vwx"[-1]); has printed x.
IndexAccessInRangeWitness ==
  /\ Ran(IndexProgram(IndexedString(MaxIndexLen), 0 - 1))
  /\ status = "done"
  /\ EchoTexts = <<<<StringElements[MaxIndexLen]>>>>

\* C25: once a statement has thrown, the run has ended with the error and
\* stays as it is: no statement is executed, no binding, container or
\* output line changes afterwards, and the lines written before stay.
ErrorStopsRun ==
  /\ [](failed => status = "error")
  /\ [][failed => /\ status' = "error"
                  /\ scopes' = scopes
                  /\ heap' = heap
                  /\ out' = out
                  /\ control' = control]_vars
  /\ [][SubSeq(out', 1, Len(out)) = out]_vars

\* `echo(1); create:int a = 1/0; echo(2); ...` has thrown after the first
\* echo, with the second still to execute.
ErrorStopsRunWitness ==
  /\ Ran(AbortProgram(CreateInt("a", OneByZero)))
  /\ failed
  /\ EchoTexts = <<NatToString(1)>>
  /\ control # <<>>
  /\ control[1].stmts[2] = EchoNode(<<NumberLiteral(2)>>)

-----------------------------------------------------------------------------
(* SpecRunFair: runs the interpreter keeps executing, of programs whose    *)
(* loops end by themselves, from their start, and of loops whose           *)
(* condition stays true, found after a number of passes close to the       *)
(* ceiling.                                                                *)

CreateFlag(name) == CreateVarNode("bool", name, BoolLiteral(TRUE))
Lower(name) == AssignVarNode(name, BoolLiteral(FALSE))

\* if (cond) { echo(1); } else { echo(2); }
EchoEither(cond) ==
  IfNode(cond, BlockNode(<<EchoNode(<<NumberLiteral(1)>>)>>),
         BlockNode(<<EchoNode(<<NumberLiteral(2)>>)>>))

\* for (create:bool b = true; b; b = false) { body }
OnceFor(body) ==
  ForNode(CreateFlag("b"), Identifier("b"), Lower("b"), BlockNode(body))

\* create:bool a = true; while (a) { body; a = false; }
OnceWhile(body) ==
  <<CreateFlag("a"), WhileNode(Identifier("a"), BlockNode(body \o <<Lower("a")>>))>>

LoopBodies ==
  {<<>>, <<EchoEither(Identifier("a"))>>, <<OnceFor(<<>>)>>,
   <<OnceFor(<<EchoEither(Identifier("b"))>>)>>,
   <<OnceFor(<<OnceFor(<<>>)>>), EchoName("a")>>}

\* Programs whose loops end after one pass, alone and nested, and the
\* programs that abort.
EndingPrograms ==
  {Main(OnceWhile(body)) : body \in LoopBodies}
    \cup {Main(<<CreateFlag("a"), OnceFor(body)>>) : body \in LoopBodies}
    \cup AbortPrograms

Forever(body) == WhileNode(BoolLiteral(TRUE), BlockNode(body))

\* while (true) { }
WhileForever == Main(<<Forever(<<>>)>>)
\* for (;;) { }   An omitted condition is the literal true.
ForForever == Main(<<ForNode(NoNode, BoolLiteral(TRUE), NoNode, BlockNode(<<>>))>>)
\* while (true) { while (true) { } }
NestedForever == Main(<<Forever(<<Forever(<<>>)>>)>>)

\* The scope chain of n nested scopes without bindings under globalEnv.
EmptyScopes(n) == [i \in 1..(n + 1) |-> NewEnvironment]

\* The run of prog is at the test of a loop, with the scopes sc and with
\* ctl still to do.
AtLoopTest(prog, sc, ctl) ==
  /\ fnArgs = <<prog>>
  /\ out = Header(prog)
  /\ scopes = sc
  /\ control = ctl

\* The states of the three loops after `passes` passes of the (inner) loop.
AfterPasses(passes) ==
  \/ AtLoopTest(WhileForever, EmptyScopes(1),
                <<WhileHead(Forever(<<>>), passes), EndBlock(1)>>)
  \/ AtLoopTest(ForForever, EmptyScopes(2),
                <<ForHead(ForForever.body[1].body.statements[1], passes),
                  EndBlock(2), EndBlock(1)>>)
  \/ AtLoopTest(NestedForever, EmptyScopes(2),
                <<WhileHead(Forever(<<>>), passes), EndBlock(2),
                  LoopAfter("while", Forever(<<Forever(<<>>)>>), 0), EndBlock(1)>>)

InitNearCeiling ==
  /\ LoopIdle
  /\ ConvIdle
  /\ status = "running"
  /\ heap = <<>>
  /\ steps = 0
  /\ last = [op |-> "LoopAfter", ok |-> TRUE]
  /\ failed = FALSE
  /\ declared = <<{}>>
  /\ ended = {}
  /\ alias = NoAlias
  /\ added = NoAdded
  /\ fnPc = "run"
  /\ fnRes = <<>>
  /\ \E passes \in (MAX_ITERATIONS - LoopWindow)..MAX_ITERATIONS : AfterPasses(passes)

InitFromStart ==
  /\ InterpIdle
  /\ LoopIdle
  /\ ConvIdle
  /\ fnPc = "args"
  /\ fnArgs \in {<<p>> : p \in EndingPrograms}
  /\ fnRes = <<>>
  /\ control = <<>>

InitRunFair == InitFromStart \/ InitNearCeiling

SpecRunFair == InitRunFair /\ [][NextRun]_vars /\ WF_vars(NextRun)

\* C28: every run of a program without write(...) ends: it completes with
\* the footer or aborts with an error, whatever loops it holds.
RunTerminates == <>(status \in {"done", "error"})

\* The inner loop of `while (true) { while (true) { } }` has aborted the run
\* at the ceiling.
RunTerminatesWitness ==
  /\ Ran(NestedForever)
  /\ status = "error"
  /\ control[1].k = "after"
  /\ control[1].passes = MAX_ITERATIONS

\* The for loop in progress is at its test or its update: the names of its
\* frame on `control`.
AtForFrame == Running /\ control[1].k \in {"for", "forUpdate"}

\* The scope of the for statement holds `a` with the count of the updates.
ForScopeHolds(sc, passes) ==
  /\ VariablesHas(sc[Len(sc)], "a")
  /\ sc[Len(sc)]["a"].value = VNum(passes)

\* C21: the binding of a for statement's init lives in a scope of the for
\* statement: the test, the update and every pass of the body see the one
\* binding and its value of the pass before, a same-named binding of the
\* enclosing scope neither collides with it nor changes, and after the for
\* statement the name resolves as it did before it.
ForInitScoped ==
  /\ AtForFrame => ForScopeHolds(scopes, control[1].passes)
  /\ \A n \in 0..MaxPasses :
       /\ (AtForFrame /\ fnArgs = <<ForShadowing(n)>>) =>
            scopes[Len(scopes) - 1]["a"].value = VNum(7)
       /\ Ran(ForShadowing(n)) =>
            status = "done" /\ EchoTexts = Counted(n) \o <<NatToString(7)>>
       /\ Ran(ForAlone(n)) => status = "error" /\ EchoTexts = Counted(n)

\* The for statement after `create:int a = 7;` has made MaxPasses passes and
\* the echo after it has printed 7.
ForInitScopedWitness ==
  /\ Ran(ForShadowing(MaxPasses))
  /\ status = "done"
  /\ Len(EchoTexts) = MaxPasses + 1

-----------------------------------------------------------------------------
(* The parser on token streams: Parser.parse on the streams of programs,   *)
(* Parser.parseExpression on the streams of expressions without            *)
(* parentheses.  fnArgs holds the stream, fnRes what the parser yields.    *)

\* The types of the lexer's operator tokens (src/src/lexer.ts).
OperatorType(lexeme) ==
  CASE lexeme = "||" -> "OR"
    [] lexeme = "&&" -> "AND"
    [] lexeme = "==" -> "EQUALS"
    [] lexeme = "!=" -> "NOT_EQUALS"
    [] lexeme = "<" -> "LESS"
    [] lexeme = ">" -> "GREATER"
    [] lexeme = "<=" -> "LESS_EQ"
    [] lexeme = ">=" -> "GREATER_EQ"
    [] lexeme = "+" -> "PLUS"
    [] lexeme = "-" -> "MINUS"
    [] lexeme = "*" -> "MULTIPLY"
    [] lexeme = "/" -> "DIVIDE"
    [] lexeme = "%" -> "MODULO"
    [] lexeme = "**" -> "POWER"
    [] lexeme = "!" -> "NOT"

OpToken(lexeme) == Tok(OperatorType(lexeme), lexeme)
IntToken(i) == Tok("INT_LITERAL", JsString(VNum(i), <<>>))
EOFToken == Tok("EOF", "")
Semicolon == Tok("SEMICOLON", ";")

\* @VoidApp "x";
HeaderToks == <<Tok("VOID_APP", "@VoidApp"), Tok("STRING_LITERAL", <<"x">>), Semicolon>>

\* using style "y";
StyleToks ==
  <<Tok("USING", "using"), Tok("STYLE", "style"), Tok("STRING_LITERAL", <<"y">>),
    Semicolon>>

\* echo(expr);
EchoToks(expr) ==
  <<Tok("ECHO", "echo"), Tok("LPAREN", "(")>> \o expr \o <<Tok("RPAREN", ")"), Semicolon>>

\* main() { body }
MainToks(body) ==
  <<Tok("MAIN", "main"), Tok("LPAREN", "("), Tok("RPAREN", ")"), Tok("LBRACE", "{")>>
    \o body \o <<Tok("RBRACE", "}")>>

\* @VoidEnd;
EndToks == <<Tok("VOID_END", "@VoidEnd"), Semicolon>>

OnePlusTwo == <<IntToken(1), OpToken("+"), IntToken(2)>>

\* The bodies of main: empty, echo statements, and a statement cut short.
BodyToks ==
  {<<>>, EchoToks(<<>>), EchoToks(<<IntToken(1)>>), EchoToks(OnePlusTwo),
   EchoToks(<<IntToken(1)>>) \o EchoToks(OnePlusTwo),
   <<Tok("ECHO", "echo"), Tok("LPAREN", "("), IntToken(1), Tok("RPAREN", ")")>>}

\* What follows the header: nothing, one main block, two, or a statement
\* outside any block.
TopLevelToks ==
  {<<>>, EchoToks(<<IntToken(1)>>), MainToks(<<>>) \o MainToks(<<>>)}
    \cup {MainToks(b) : b \in BodyToks}

ProgramStreams ==
  {head \o style \o tops \o end \o <<EOFToken>> :
     head \in {HeaderToks, SubSeq(HeaderToks, 1, 2), <<>>},
     style \in {<<>>, StyleToks},
     tops \in TopLevelToks,
     end \in {<<>>, EndToks, EndToks \o EchoToks(<<IntToken(1)>>),
              EndToks \o MainToks(<<>>)}}

BinaryLexemes == {"||", "&&", "==", "<", "+", "-", "*", "**"}
Prefixes == {<<>>, <<OpToken("-")>>, <<OpToken("!")>>}
Operands == <<2, 3, 2, 1, 3>>
MaxOperators == 2

RECURSIVE ExpressionFrom(_, _, _)
\* prefix operand { operator prefix operand }, from the i-th operand on
ExpressionFrom(ps, ops, i) ==
  ps[i] \o <<IntToken(Operands[i])>>
    \o (IF i > Len(ops) THEN <<>>
        ELSE <<OpToken(ops[i])>> \o ExpressionFrom(ps, ops, i + 1))

OneTwoThree ==
  <<IntToken(1), OpToken("+"), IntToken(2), OpToken("*"), IntToken(3), EOFToken>>

TwoThreeTwo ==
  <<IntToken(2), OpToken("**"), IntToken(3), OpToken("**"), IntToken(2), EOFToken>>

\* `1 + 2 * 3`, and the expressions of up to n binary operators
\* on the operands 2, 3, 2, ..., each operand bare or under a unary operator.
ExpressionStreams(n) ==
  {OneTwoThree}
    \cup UNION {{ExpressionFrom(ps, ops, 1) \o <<EOFToken>> :
                   ops \in [1..k -> BinaryLexemes],
                   ps \in [1..(k + 1) -> Prefixes]} : k \in 0..n}

InitParse ==
  /\ InterpIdle
  /\ LoopIdle
  /\ ConvIdle
  /\ control = <<>>
  /\ fnRes = <<>>
  /\ \/ fnPc = "parse" /\ fnArgs \in {<<toks>> : toks \in ProgramStreams}
     \/ fnPc = "parseExpression" /\ fnArgs \in {<<toks>> : toks \in ExpressionStreams(MaxOperators)}

\* new Parser(tokens).parse()
CallParse ==
  /\ fnPc = "parse"
  /\ fnRes' = parse(fnArgs[1])
  /\ fnPc' = "parsed"
  /\ UNCHANGED <<fnArgs, interpVars, loopVars, convVars, control>>

\* parseExpression() of a parser at the start of the tokens
CallParseExpression ==
  /\ fnPc = "parseExpression"
  /\ fnRes' = parseExpression(fnArgs[1], 1)
  /\ fnPc' = "parsedExpression"
  /\ UNCHANGED <<fnArgs, interpVars, loopVars, convVars, control>>

NextParse ==
  \/ CallParse
  \/ CallParseExpression

SpecParse == InitParse /\ [][NextParse]_vars

\* The stream starts with a valid header `@VoidApp "name";`.
ValidHeader(toks) == SubSeq(toks, 1, 3) = HeaderToks

NoMain(toks) == \A i \in 1..Len(toks) : toks[i].type # "MAIN"

\* C17: a token stream with a valid header followed by no main block is
\* rejected by Parser.parse with a parse error.
HeaderWithoutMainRejected ==
  (fnPc = "parsed" /\ ValidHeader(fnArgs[1]) /\ NoMain(fnArgs[1])) => ~fnRes.ok

\* C26: when parse returns a program, every token before the end-of-input
\* marker has been consumed: a stream with anything but main blocks after
\* the header, or with a token after `@VoidEnd ;`, is rejected.
ParseConsumesEveryToken ==
  (fnPc = "parsed" /\ fnRes.ok) => fnRes.pos = Len(fnArgs[1])

\* The level of the precedence table an operator stands on.
Level(op) ==
  CASE op = "||" -> 1
    [] op = "&&" -> 2
    [] op \in {"==", "!="} -> 3
    [] op \in {"<", ">", "<=", ">="} -> 4
    [] op \in {"+", "-"} -> 5
    [] op \in {"*", "/", "%"} -> 6
    [] op = "**" -> 7

NodeLevel(node) ==
  CASE node.type = "BinaryExpr" -> Level(node.operator)
    [] node.type = "UnaryExpr" -> 8
    [] OTHER -> 10

RECURSIVE Grouped(_)
\* Every operand of the tree binds at least as tightly as its operator's
\* side allows: the left operand of a left-associative operator no looser
\* than the operator and its right operand tighter, the other way round for
\* `**`, the operand of a unary operator no looser than a unary operator.
Grouped(node) ==
  CASE node.type = "BinaryExpr" ->
         /\ IF node.operator = "**"
            THEN /\ NodeLevel(node.left) > Level(node.operator)
                 /\ NodeLevel(node.right) >= Level(node.operator)
            ELSE /\ NodeLevel(node.left) >= Level(node.operator)
                 /\ NodeLevel(node.right) > Level(node.operator)
         /\ Grouped(node.left)
         /\ Grouped(node.right)
    [] node.type = "UnaryExpr" ->
         NodeLevel(node.operand) >= 8 /\ Grouped(node.operand)
    [] OTHER -> TRUE

RECURSIVE Yield(_)
\* The lexemes of the tree from left to right.
Yield(node) ==
  CASE node.type = "BinaryExpr" ->
         Yield(node.left) \o <<node.operator>> \o Yield(node.right)
    [] node.type = "UnaryExpr" -> <<node.operator>> \o Yield(node.operand)
    [] OTHER -> <<ToString(node.value)>>

\* The lexemes of the stream up to the end marker.
Lexemes(toks) ==
  [i \in 1..(Len(toks) - 1) |->
     IF toks[i].type = "INT_LITERAL" THEN ToString(ParseInt(toks[i].value).n)
     ELSE toks[i].value]

\* The number the parsed expression evaluates to.
ParsedValue == executeNode(fnRes.node, <<NewEnvironment>>, <<>>).v.n

\* C18: the tree of an expression groups its operators by the levels of the
\* precedence table, operators of one level to the left, `**` to the right,
\* unary `-` and `!` tighter than every binary operator; `1 + 2 * 3` is 7
\* and `2 ** 3 ** 2` is 512.
ExpressionsGroupByPrecedence ==
  fnPc = "parsedExpression" =>
    /\ fnRes.ok
    /\ fnRes.pos = Len(fnArgs[1])
    /\ Yield(fnRes.node) = Lexemes(fnArgs[1])
    /\ Grouped(fnRes.node)
    /\ fnArgs[1] = OneTwoThree => ParsedValue = 7
    /\ fnArgs[1] = TwoThreeTwo => ParsedValue = 512

ExpressionsGroupByPrecedenceWitness ==
  /\ fnPc = "parsedExpression"
  /\ fnArgs[1] = TwoThreeTwo
  /\ fnRes.ok
  /\ fnRes.node = BinaryExpr("**", NumberLiteral(2),
                             BinaryExpr("**", NumberLiteral(3), NumberLiteral(2)))
  /\ ParsedValue = 512

-----------------------------------------------------------------------------
(* The lexer on source texts: Lexer.tokenize on the texts made of up to    *)
(* MaxPieces pieces.  fnArgs holds the text, fnRes what tokenize yields.   *)

Word(w) == [i \in 1..Len(w) |-> w[i]]

\* Directives, blanks, numbers, words, strings and comments, whole and cut
\* short.
LongPieces ==
  {<<"@", "V", "o", "i", "d", "A", "p", "p">>, <<"@", "V", "o", "i", "d", "E", "n", "d">>,
   <<"@", "x">>, <<"1", "2">>, <<"1", ".", "5">>, <<"m", "a", "i", "n">>,
   <<"c", "r", "e", "a", "t", "e">>, <<"\"", "x", "\"">>, <<"'", "\\", "n", "'">>,
   <<"\"", "\\">>, <<"/", "/", "c", "\n">>, <<"/", "/", "c">>,
   <<"#", "*", "c", "*", "#">>, <<"#", "*", "c">>}

\* The characters of the one-character pieces.
PieceChars ==
  {"@", " ", "\n", "1", "a", "_", "\"", "'", "+", "-", "*", "/", "%", "=", "<", ">", "!",
   "(", ")", "{", "}", "[", "]", ".", ";", ",", ":", "&", "|", "#", "$"}

Pieces == LongPieces \cup {<<ch>> : ch \in PieceChars}

MaxPieces == 2

RECURSIVE Concat(_)
Concat(ps) == IF ps = <<>> THEN <<>> ELSE ps[1] \o Concat(Tail(ps))

\* The texts made of at most n pieces.
Sources(n) == UNION {{Concat(ps) : ps \in [1..k -> Pieces]} : k \in 0..n}

InitLex ==
  /\ InterpIdle
  /\ LoopIdle
  /\ ConvIdle
  /\ control = <<>>
  /\ fnRes = <<>>
  /\ fnPc = "tokenize"
  /\ fnArgs \in {<<src>> : src \in Sources(MaxPieces)}

\* new Lexer(source).tokenize()
CallTokenize ==
  /\ fnPc = "tokenize"
  /\ fnRes' = tokenize(fnArgs[1])
  /\ fnPc' = "tokenized"
  /\ UNCHANGED <<fnArgs, interpVars, loopVars, convVars, control>>

NextLex == CallTokenize

SpecLex == InitLex /\ [][NextLex]_vars

\* tokenize has returned the tokens fnRes.tokens.
Tokenized == fnPc = "tokenized" /\ fnRes.ok

\* C22: the token sequence tokenize returns is non-empty, its last token is
\* the end-of-input marker, and no other token of it is one.
OneEndOfInput ==
  Tokenized =>
    /\ fnRes.tokens # <<>>
    /\ fnRes.tokens[Len(fnRes.tokens)].type = "EOF"
    /\ \A i \in 1..(Len(fnRes.tokens) - 1) : fnRes.tokens[i].type # "EOF"

\* `@VoidEnd;` is tokenized as the directive, the semicolon and the marker.
OneEndOfInputWitness ==
  /\ Tokenized
  /\ fnArgs[1] = <<"@", "V", "o", "i", "d", "E", "n", "d", ";">>
  /\ Len(fnRes.tokens) = 3
  /\ fnRes.tokens[1].type = "VOID_END"

\* The token is the punctuation `[`, `]` or `.`.
IsBracketOrDot(tok) ==
  /\ tok.type \notin {"STRING_LITERAL", "INT_LITERAL", "FLOAT_LITERAL"}
  /\ tok.value \in {"[", "]", "."}

\* C27: every token the lexer emits has a kind of the enum TokenType, and
\* the kinds of `[`, `]` and `.` differ from each other and from the kind
\* of every other token.
TokenKindsDeclaredAndDistinct ==
  Tokenized =>
    \A i \in 1..Len(fnRes.tokens) :
      /\ fnRes.tokens[i].type \in TokenTypes
      /\ \A j \in 1..Len(fnRes.tokens) :
           (IsBracketOrDot(fnRes.tokens[i])
              /\ fnRes.tokens[j].type = fnRes.tokens[i].type)
             => fnRes.tokens[j].value = fnRes.tokens[i].value

-----------------------------------------------------------------------------
(* SpecNest: programs over two variables that put lists and dicts into     *)
(* lists and dicts: main() creates them from literals and applies add:list *)
(* and add:dict with the variables themselves as arguments.                *)

\* Number of blocks and statements of a program of SpecNest.
MaxNestSteps == 4

NestCreateMenu ==
  {CreateVarNode("list", "a", ListLiteral(<<>>)),
   CreateVarNode("list", "b", ListLiteral(<<Identifier("a")>>)),
   CreateVarNode("dict", "b", EmptyDict),
   CreateVarNode("dict", "b", DictLiteral(<<Entry(NumberLiteral(1), Identifier("a"))>>))}

NestMethodMenu ==
  {MethodCallNode(n, "add", "list", <<e>>) :
     n \in Names, e \in {Identifier("a"), Identifier("b"), NumberLiteral(1)}}
  \cup {MethodCallNode("b", "add", "dict", <<NumberLiteral(1), Identifier(n)>>) :
          n \in Names}

InitNest ==
  /\ InitInterp(MaxNestSteps)
  /\ LoopIdle
  /\ ConvIdle
  /\ FnIdle

\* create:<type> name = expr; for a name the scope does not hold yet (a
\* second create of the name throws).
CreateFresh(node) ==
  /\ ~VariablesHas(scopes[Len(scopes)], node.name)
  /\ CreateVar(node)

NextNest ==
  \/ ExecuteStart
  \/ EnterBlock(2)
  \/ ExecuteFinish
  \/ \E node \in NestCreateMenu : CreateFresh(node)
  \/ \E node \in NestMethodMenu : MethodCall(node)

SpecNest == InitNest /\ [][NextNest]_vars

\* The addresses of the lists and dicts the container at address r holds as
\* an element, a key or a value.
Held(h, r) == {h[r].keys[i].n : i \in {j \in 1..Len(h[r].keys) : h[r].keys[j].t = "ref"}}
              \cup {h[r].values[i].n :
                      i \in {j \in 1..Len(h[r].values) : h[r].values[j].t = "ref"}}

RECURSIVE HeldWithin(_, _, _)
\* The addresses held by the containers at S, directly or through at most n
\* further containers, and S.
HeldWithin(h, S, n) ==
  IF n = 0 THEN S ELSE HeldWithin(h, S \cup UNION {Held(h, r) : r \in S}, n - 1)

\* C29: no list or dict contains itself, directly or through nested
\* containers.
NoContainerHoldsItself ==
  \A r \in 1..Len(heap) : r \notin HeldWithin(heap, Held(heap, r), Len(heap))

-----------------------------------------------------------------------------
(* SpecPairs: programs over dicts whose values tell their key: main()      *)
(* creates a dict from a literal, binds a second name to it and applies    *)
(* add:dict, delete:dict and clear:dict, some of which throw.              *)

\* Number of blocks and statements of a program of SpecPairs.
MaxPairSteps == 5

PairKeys == {1, 2, 3}

\* A value for the key k: k, or k + 10.
PairValue(k, again) == NumberLiteral(IF again THEN k + 10 ELSE k)

PairEntry(k, again) == Entry(NumberLiteral(k), PairValue(k, again))

PairCreateMenu ==
  {CreateVarNode("dict", "a", EmptyDict),
   CreateVarNode("dict", "a", DictLiteral(<<PairEntry(1, FALSE), PairEntry(2, TRUE)>>)),
   CreateVarNode("dict", "b", Identifier("a"))}

\* The calls on a and b: add and delete with every key (a delete of a
\* missing key throws), clear, and calls that throw for their arguments or
\* their collection type.
PairMethodMenu ==
  {MethodCallNode(n, "add", "dict", <<NumberLiteral(k), PairValue(k, again)>>) :
     n \in Names, k \in PairKeys, again \in BOOLEAN}
  \cup {MethodCallNode(n, "delete", "dict", <<NumberLiteral(k)>>) :
          n \in Names, k \in PairKeys}
  \cup {MethodCallNode(n, "clear", "dict", <<>>) : n \in Names}
  \cup {MethodCallNode("a", "add", "dict", <<NumberLiteral(1), OneByZero>>),
        MethodCallNode("a", "add", "dict", <<NumberLiteral(1)>>),
        MethodCallNode("a", "delete", "dict", <<>>),
        MethodCallNode("a", "delete", "list", <<NumberLiteral(0)>>)}

InitPairs ==
  /\ InitInterp(MaxPairSteps)
  /\ LoopIdle
  /\ ConvIdle
  /\ FnIdle

NextPairs ==
  \/ ExecuteStart
  \/ EnterBlock(2)
  \/ ExecuteFinish
  \/ \E node \in PairCreateMenu : CreateVar(node)
  \/ \E node \in PairMethodMenu : MethodCall(node)

SpecPairs == InitPairs /\ [][NextPairs]_vars

\* C30: in every dict the key sequence and the value sequence have the same
\* length and entry i of the values is a value given for the key at entry i
\* of the keys, also after a call that threw.
DictEntriesAligned ==
  \A d \in 1..Len(heap) :
    heap[d].kind = "dict" =>
      /\ Len(heap[d].keys) = Len(heap[d].values)
      /\ \A i \in 1..Len(heap[d].keys) :
           heap[d].values[i].n % 10 = heap[d].keys[i].n

\* delete:dict has removed an entry of a dict that keeps two entries with
\* one of them replaced before.
DictEntriesAlignedWitness ==
  /\ last.op = "MethodCall"
  /\ last.ok
  /\ last.node.method = "delete"
  /\ \E d \in 1..Len(heap) :
       /\ heap[d].kind = "dict"
       /\ Len(heap[d].keys) = 2
       /\ heap[d].values[1].n > 10

\* A call on a dict with entries has thrown.
DictCallThrew ==
  /\ last.op = "MethodCall"
  /\ ~last.ok
  /\ \E d \in 1..Len(heap) : heap[d].kind = "dict" /\ Len(heap[d].keys) = 2

-----------------------------------------------------------------------------
(* The conversion round trips toInt(toString(n)) and toBool(toString(b)).  *)

ConvArgs == {VNum(i) : i \in (0 - MaxInt)..MaxInt} \cup {VBool(TRUE), VBool(FALSE)}

InitConv ==
  /\ InterpIdle
  /\ LoopIdle
  /\ FnIdle
  /\ convPc = "arg"
  /\ convArg \in ConvArgs
  /\ convStr = VNull
  /\ convRes = VNull

\* toString(arg)
CallToString ==
  /\ convPc = "arg"
  /\ convStr' = toString(convArg, heap)
  /\ convPc' = "str"
  /\ UNCHANGED <<convArg, convRes, interpVars, loopVars, fnVars, control>>

\* toInt(str)
CallToInt ==
  /\ convPc = "str"
  /\ convArg.t = "number"
  /\ convRes' = toInt(convStr, heap)
  /\ convPc' = "done"
  /\ UNCHANGED <<convArg, convStr, interpVars, loopVars, fnVars, control>>

\* toBool(str)
CallToBool ==
  /\ convPc = "str"
  /\ convArg.t = "bool"
  /\ convRes' = toBool(convStr, heap)
  /\ convPc' = "done"
  /\ UNCHANGED <<convArg, convStr, interpVars, loopVars, fnVars, control>>

NextConv == CallToString \/ CallToInt \/ CallToBool

SpecConv == InitConv /\ [][NextConv]_vars

\* C7: for each bool b, toBool(toString(b)) returns b.
BoolRoundTrip ==
  (convPc = "done" /\ convArg.t = "bool") => convRes = convArg

\* C8: for every whole number n in -MaxInt..MaxInt, toInt(toString(n))
\* returns n.
IntRoundTrip ==
  (convPc = "done" /\ convArg.t = "number") => convRes = convArg

\* A negative number of three digits has made the round trip.
IntRoundTripWitness ==
  /\ convPc = "done"
  /\ convArg = VNum(0 - 105)
  /\ convStr = VStr(<<"-", "1", "0", "5">>)
  /\ convRes = VNum(0 - 105)

====
